---- MODULE Spec2Model ----
(***************************************************************************)
(* Verification model of the deterministic evidence and verification core  *)
(* of SageFuzz seed generation: the scenario contract validator, the       *)
(* control-plane entity validator, the execution sequence validator and    *)
(* the control-flow graph analyses.                                        *)
(*                                                                         *)
(* Python values are records [t, n, s, l, d]: t is the type tag, n the     *)
(* number (an int as itself, a float in tenths), s the characters of a     *)
(* string (a sequence of one-character strings), l the items of a list and *)
(* d the items of a dict (a function from keys to values).                 *)
(***************************************************************************)
EXTENDS Integers, Sequences, FiniteSets, TLC

VARIABLES
    ctx,                     \* ProgramContext: host_info, tables_by_name, actions_by_name,
                             \* the control-flow graph of dot_graphs and the parser of bmv2_json
    task,                    \* TaskSpec handed to a validator
    packet_sequence,         \* candidate List[PacketSpec]
    entities,                \* candidate List[TableRule]
    control_plane_sequence,  \* candidate List[ControlPlaneOperation]
    execution_sequence,      \* candidate List[ExecutionOperation]
    outcome,                 \* what the last validator call did: returned a CriticResult, or raised
    walk,                    \* position of the running graph or parser traversal
    history                  \* what the last call of each validator and of ranked_tables returned

\* What a validator is handed
inputs == <<ctx, task, packet_sequence, entities, control_plane_sequence, execution_sequence>>

vars == <<ctx, task, packet_sequence, entities, control_plane_sequence, execution_sequence,
          outcome, walk, history>>

----------------------------------------------------------------------------
(* Python values *)

EmptyDict == [k \in {} |-> 0]

None == [t |-> "none", n |-> 0, s |-> <<>>, l |-> <<>>, d |-> EmptyDict]

PyBool(b) == [t |-> "bool", n |-> IF b THEN 1 ELSE 0, s |-> <<>>, l |-> <<>>, d |-> EmptyDict]

PyInt(i) == [t |-> "int", n |-> i, s |-> <<>>, l |-> <<>>, d |-> EmptyDict]

\* A float, held in tenths: PyFloat(65) is 6.5.
PyFloat(tenths) == [t |-> "float", n |-> tenths, s |-> <<>>, l |-> <<>>, d |-> EmptyDict]

\* An int whose magnitude is beyond the range of a float (such as 10**400).
BigInt == [t |-> "bigint", n |-> 0, s |-> <<>>, l |-> <<>>, d |-> EmptyDict]

PyStr(chars) == [t |-> "str", n |-> 0, s |-> chars, l |-> <<>>, d |-> EmptyDict]

PyList(items) == [t |-> "list", n |-> 0, s |-> <<>>, l |-> items, d |-> EmptyDict]

PyDict(items) == [t |-> "dict", n |-> 0, s |-> <<>>, l |-> <<>>, d |-> items]

IsStr(v) == v.t = "str"

\* The value of a number in tenths (bool and int are exact, a float is held so).
Tenths(v) == IF v.t = "float" THEN v.n ELSE 10 * v.n

IsNumeric(v) == v.t \in {"bool", "int", "float"}

\* Python ==: numbers compare by value across bool/int/float, everything else
\* by type and content.
RECURSIVE PyEq(_, _)
PyEq(a, b) ==
    IF IsNumeric(a) /\ IsNumeric(b) THEN Tenths(a) = Tenths(b)
    ELSE IF a.t # b.t THEN FALSE
    ELSE IF a.t = "str" THEN a.s = b.s
    ELSE IF a.t = "list" THEN
        /\ Len(a.l) = Len(b.l)
        /\ \A i \in 1..Len(a.l) : PyEq(a.l[i], b.l[i])
    ELSE IF a.t = "dict" THEN
        /\ DOMAIN a.d = DOMAIN b.d
        /\ \A k \in DOMAIN a.d : PyEq(a.d[k], b.d[k])
    ELSE TRUE

----------------------------------------------------------------------------
(* Strings as character sequences *)

Digits == {"0", "1", "2", "3", "4", "5", "6", "7", "8", "9"}

DigitVal(c) ==
    CASE c = "0" -> 0 [] c = "1" -> 1 [] c = "2" -> 2 [] c = "3" -> 3
      [] c = "4" -> 4 [] c = "5" -> 5 [] c = "6" -> 6 [] c = "7" -> 7
      [] c = "8" -> 8 [] c = "9" -> 9

HexDigits == Digits \cup {"a", "b", "c", "d", "e", "f"}

HexVal(c) ==
    CASE c \in Digits -> DigitVal(c)
      [] c = "a" -> 10 [] c = "b" -> 11 [] c = "c" -> 12
      [] c = "d" -> 13 [] c = "e" -> 14 [] c = "f" -> 15

\* str.lower() on one character.
LowerChar(c) ==
    CASE c = "A" -> "a" [] c = "B" -> "b" [] c = "C" -> "c" [] c = "D" -> "d"
      [] c = "E" -> "e" [] c = "F" -> "f" [] c = "G" -> "g" [] c = "H" -> "h"
      [] c = "I" -> "i" [] c = "J" -> "j" [] c = "K" -> "k" [] c = "L" -> "l"
      [] c = "M" -> "m" [] c = "N" -> "n" [] c = "O" -> "o" [] c = "P" -> "p"
      [] c = "Q" -> "q" [] c = "R" -> "r" [] c = "S" -> "s" [] c = "T" -> "t"
      [] c = "U" -> "u" [] c = "V" -> "v" [] c = "W" -> "w" [] c = "X" -> "x"
      [] c = "Y" -> "y" [] c = "Z" -> "z"
      [] OTHER -> c

Lower(chars) == [i \in 1..Len(chars) |-> LowerChar(chars[i])]

RECURSIVE LStrip(_)
LStrip(chars) ==
    IF chars # <<>> /\ Head(chars) = " " THEN LStrip(Tail(chars)) ELSE chars

RECURSIVE RStrip(_)
RStrip(chars) ==
    IF chars # <<>> /\ chars[Len(chars)] = " "
    THEN RStrip(SubSeq(chars, 1, Len(chars) - 1))
    ELSE chars

\* str.strip()
Strip(chars) == RStrip(LStrip(chars))

\* needle in hay, for strings
IsSubstring(needle, hay) ==
    \E i \in 0..(Len(hay) - Len(needle)) : SubSeq(hay, i + 1, i + Len(needle)) = needle

StartsWith(chars, prefix) ==
    Len(chars) >= Len(prefix) /\ SubSeq(chars, 1, Len(prefix)) = prefix

AllIn(chars, alphabet) == \A i \in 1..Len(chars) : chars[i] \in alphabet

RECURSIVE DecValue(_)
DecValue(chars) ==
    IF chars = <<>> THEN 0
    ELSE 10 * DecValue(SubSeq(chars, 1, Len(chars) - 1)) + DigitVal(chars[Len(chars)])

RECURSIVE HexValue(_)
HexValue(chars) ==
    IF chars = <<>> THEN 0
    ELSE 16 * HexValue(SubSeq(chars, 1, Len(chars) - 1)) + HexVal(chars[Len(chars)])

\* Position of the first occurrence of character c, 0 when absent.
FirstIndex(chars, c) ==
    IF \E i \in 1..Len(chars) : chars[i] = c
    THEN CHOOSE i \in 1..Len(chars) : chars[i] = c /\ \A j \in 1..(i - 1) : chars[j] # c
    ELSE 0

----------------------------------------------------------------------------
(* Results of the helpers: a float, None, or a raised exception *)

NumResult(tenths) == [k |-> "num", v |-> tenths]
NoNumber == [k |-> "none", v |-> 0]
NumRaise == [k |-> "raise", v |-> 0]

\* float(raw) for an already stripped and lowered string: an optional sign,
\* digits, and an optional point with at most one digit on either side of it
\* missing.  The grammar is the part of Python's that tenths can hold.
ParseParts(sign, ipart, fpart) ==
    IF /\ AllIn(ipart, Digits)
       /\ AllIn(fpart, Digits)
       /\ Len(fpart) <= 1
       /\ Len(ipart) + Len(fpart) >= 1
    THEN NumResult(sign * (10 * DecValue(ipart) + DecValue(fpart)))
    ELSE NoNumber

ParseUnsigned(sign, body, dot) ==
    IF dot = 0 THEN ParseParts(sign, body, <<>>)
    ELSE ParseParts(sign, SubSeq(body, 1, dot - 1), SubSeq(body, dot + 1, Len(body)))

ParseFloat(raw) ==
    IF raw # <<>> /\ Head(raw) \in {"-", "+"}
    THEN ParseUnsigned(IF Head(raw) = "-" THEN -1 ELSE 1, Tail(raw), FirstIndex(Tail(raw), "."))
    ELSE ParseUnsigned(1, raw, FirstIndex(raw, "."))

\* int(raw, 16) for a string that starts with 0x
ParseHex(raw) ==
    IF Len(raw) > 2 /\ AllIn(SubSeq(raw, 3, Len(raw)), HexDigits)
    THEN NumResult(10 * HexValue(SubSeq(raw, 3, Len(raw))))
    ELSE NoNumber

\* The string branch of _to_number, for the stripped and lowered string
ParseNumber(raw) ==
    IF raw = <<>> THEN NoNumber
    ELSE IF StartsWith(raw, <<"0", "x">>) THEN ParseHex(raw)
    ELSE ParseFloat(raw)

ToNumberNoOverflowCheck(value) ==
    IF value.t \in {"bool", "int", "float"} THEN NumResult(Tenths(value))
    ELSE IF value.t = "bigint" THEN NoNumber
    ELSE IF value.t = "str" THEN ParseNumber(Lower(Strip(value.s)))
    ELSE NoNumber

ToNumberHexAsDecimal(value) ==
    IF value.t \in {"bool", "int", "float"} THEN NumResult(Tenths(value))
    ELSE IF value.t = "bigint" THEN NumRaise
    ELSE IF value.t = "str" THEN
        IF Lower(Strip(value.s)) = <<>> THEN NoNumber ELSE ParseFloat(Lower(Strip(value.s)))
    ELSE NoNumber

\* _to_number: float(value) of an int beyond the float range raises
\* OverflowError outside the try block; a malformed string gives None.
ToNumber(value) ==
    IF value.t \in {"bool", "int", "float"} THEN NumResult(Tenths(value))
    ELSE IF value.t = "bigint" THEN NumRaise
    ELSE IF value.t = "str" THEN ParseNumber(Lower(Strip(value.s)))
    ELSE NoNumber

\* _coerce_literal: a numeric-looking string becomes an int when its value is
\* integral and a float otherwise; other strings are stripped; other values
\* are returned as they are.
CoerceString(normalized, numeric) ==
    IF normalized = <<>> THEN PyStr(normalized)
    ELSE IF numeric.k = "num" THEN
        IF numeric.v % 10 = 0 THEN PyInt(numeric.v \div 10) ELSE PyFloat(numeric.v)
    ELSE PyStr(normalized)

CoerceLiteral(value) ==
    IF value.t = "str" THEN CoerceString(Strip(value.s), ToNumber(PyStr(Strip(value.s))))
    ELSE value

----------------------------------------------------------------------------
(* Expectation matching *)

\* "contains": a string needle, or a list of needles that must all occur.
ContainsHolds(actual, needle) ==
    IF needle.t = "str" THEN IsStr(actual) /\ IsSubstring(needle.s, actual.s)
    ELSE IF needle.t = "list" THEN
        /\ IsStr(actual)
        /\ \A i \in 1..Len(needle.l) :
              IsStr(needle.l[i]) /\ IsSubstring(needle.l[i].s, actual.s)
    ELSE FALSE

\* An actual value that is not a string contains none of the needles
NotContainsHoldsAnyActual(actual, needle) ==
    IF needle.t = "str" THEN ~(IsStr(actual) /\ IsSubstring(needle.s, actual.s))
    ELSE IF needle.t = "list" THEN
        \A i \in 1..Len(needle.l) :
            IsStr(needle.l[i]) /\ ~(IsStr(actual) /\ IsSubstring(needle.l[i].s, actual.s))
    ELSE FALSE

\* "not_contains": a string needle, or a list of needles none of which occurs.
NotContainsHolds(actual, needle) ==
    IF needle.t = "str" THEN IsStr(actual) /\ ~IsSubstring(needle.s, actual.s)
    ELSE IF needle.t = "list" THEN
        /\ IsStr(actual)
        /\ \A i \in 1..Len(needle.l) :
              IsStr(needle.l[i]) /\ ~IsSubstring(needle.l[i].s, actual.s)
    ELSE FALSE

\* "one_of": membership after normalizing both sides.
OneOfHolds(actual, candidates) ==
    /\ candidates.t = "list"
    /\ \E i \in 1..Len(candidates.l) :
          PyEq(CoerceLiteral(actual), CoerceLiteral(candidates.l[i]))

\* _expectation_matches
RECURSIVE ExpectationMatches(_, _)
ExpectationMatches(actual, expected) ==
    IF expected.t = "dict" THEN
        LET has(key) == key \in DOMAIN expected.d
        IN  /\ has("equals") => ExpectationMatches(actual, expected.d["equals"])
            /\ has("eq") => ExpectationMatches(actual, expected.d["eq"])
            /\ has("contains") => ContainsHolds(actual, expected.d["contains"])
            /\ has("not_contains") => NotContainsHolds(actual, expected.d["not_contains"])
            /\ has("one_of") => OneOfHolds(actual, expected.d["one_of"])
    ELSE PyEq(CoerceLiteral(actual), CoerceLiteral(expected))

----------------------------------------------------------------------------
(* IPv4 normalization *)

\* chars split at every occurrence of the character sep
RECURSIVE Split(_, _)
Split(chars, sep) ==
    LET at == FirstIndex(chars, sep)
    IN  IF at = 0 THEN <<chars>>
        ELSE <<SubSeq(chars, 1, at - 1)>> \o Split(SubSeq(chars, at + 1, Len(chars)), sep)

ValidOctet(chars) ==
    /\ Len(chars) \in 1..3
    /\ AllIn(chars, Digits)
    /\ (Len(chars) > 1 => chars[1] # "0")
    /\ DecValue(chars) <= 255

FourOctets(parts) == Len(parts) = 4 /\ \A i \in 1..4 : ValidOctet(parts[i])

ValidDottedQuad(chars) == FourOctets(Split(chars, "."))

ValidPrefixLen(chars) ==
    /\ Len(chars) \in 1..3
    /\ AllIn(chars, Digits)
    /\ DecValue(chars) <= 32

\* Optional[str]: <<>> is None, <<x>> is the string x.
NoStr == <<>>

\* _normalize_ipv4: the address of ip_interface(raw), or of ip_interface(raw + "/32")
\* when raw has no slash; None for a non-string, an empty string or a string
\* ip_interface rejects.  Addresses are dotted quads and suffixes prefix lengths.
InterfaceAddress(raw, slash) ==
    IF raw = <<>> THEN NoStr
    ELSE IF slash = 0 THEN
        IF ValidDottedQuad(raw) THEN <<raw>> ELSE NoStr
    ELSE IF /\ ValidDottedQuad(SubSeq(raw, 1, slash - 1))
            /\ ValidPrefixLen(SubSeq(raw, slash + 1, Len(raw)))
         THEN <<SubSeq(raw, 1, slash - 1)>>
    ELSE NoStr

NormalizeIpv4KeepSuffix(value) ==
    IF ~IsStr(value) THEN NoStr
    ELSE IF InterfaceAddress(Strip(value.s), FirstIndex(Strip(value.s), "/")) = NoStr THEN NoStr
    ELSE <<Strip(value.s)>>

NormalizeIpv4(value) ==
    IF ~IsStr(value) THEN NoStr
    ELSE InterfaceAddress(Strip(value.s), FirstIndex(Strip(value.s), "/"))

----------------------------------------------------------------------------
(* Dicts and optional values of the schemas *)

\* dict.get(key) on a dict of values: None when the key is absent.
DGet(d, key) == IF key \in DOMAIN d THEN d[key] ELSE None

\* role_bindings is a dict in insertion order: a sequence of <<role, host>>
\* with distinct roles.  role_bindings.get(role) is <<>> (None) or <<host>>.
RoleGet(role_bindings, role) ==
    IF \E i \in 1..Len(role_bindings) : role_bindings[i][1] = role
    THEN <<role_bindings[CHOOSE i \in 1..Len(role_bindings) : role_bindings[i][1] = role][2]>>
    ELSE NoStr

\* Truth value of an Optional[str]: None and "" are false.
Truthy(opt) == opt # <<>> /\ opt[1] # ""

\* packet.scenario or "default"
ScenarioTag(packet) == IF Truthy(packet.scenario) THEN packet.scenario[1] ELSE "default"

\* _scenario_packets
ScenarioPackets(packets, scenario) ==
    SelectSeq(packets, LAMBDA packet : ScenarioTag(packet) = scenario)

CompareNumericGeAsGt(left, right, op) ==
    CASE op = "eq" -> left = right
      [] op = "neq" -> left # right
      [] op = "gt" -> left > right
      [] op = "lt" -> left < right
      [] op = "ge" -> left > right
      [] op = "le" -> left <= right
      [] OTHER -> FALSE

\* _compare_numeric
CompareNumeric(left, right, op) ==
    CASE op = "eq" -> left = right
      [] op = "neq" -> left # right
      [] op = "gt" -> left > right
      [] op = "lt" -> left < right
      [] op = "ge" -> left >= right
      [] op = "le" -> left <= right
      [] OTHER -> FALSE

----------------------------------------------------------------------------
(* Scenario contract validator *)

\* What a check hands back: nothing (the check passed), a FAIL feedback, or an
\* exception raised on the way.
CheckOk == [k |-> "none", fb |-> [kind |-> "none"]]
CheckFail(feedback) == [k |-> "fail", fb |-> feedback]
CheckRaise(exception) == [k |-> "raise", fb |-> [kind |-> exception]]

\* What a validator call does: it returns CriticResult{status, feedback}, or an
\* exception leaves it.
Returned(status, feedback) == [kind |-> "return", status |-> status, feedback |-> feedback]
Raised(exception) == [kind |-> "raise", status |-> "NONE", feedback |-> [kind |-> exception]]

FromCheck(res) == IF res.k = "raise" THEN Raised(res.fb.kind) ELSE Returned("FAIL", res.fb)

\* The first check that does not pass decides
OrElse(res, next) == IF res.k # "none" THEN res ELSE next

\* The comparisons of the rx_role part of a step, on the resolved values
CompareRx(expected_ip, packet_dst_ip, expected_mac, packet_dst_mac, contract, idx) ==
    IF expected_ip # NoStr /\ packet_dst_ip # NoStr /\ packet_dst_ip # expected_ip THEN
        CheckFail([kind |-> "ipv4_dst_mismatch", scenario |-> contract.scenario,
                   step |-> idx, expected |-> expected_ip[1], got |-> packet_dst_ip[1]])
    ELSE IF /\ IsStr(expected_mac) /\ IsStr(packet_dst_mac)
            /\ Lower(packet_dst_mac.s) # Lower(expected_mac.s) THEN
        CheckFail([kind |-> "ethernet_dst_mismatch", scenario |-> contract.scenario,
                   step |-> idx, expected |-> expected_mac.s, got |-> packet_dst_mac.s])
    ELSE CheckOk

\* ctx.host_info.get(host, {})
HostInfoOf(c, host) == IF host \in DOMAIN c.host_info THEN c.host_info[host] ELSE EmptyDict

\* The rx_role part of a step: the destination IP and MAC of the packet must
\* be those of the host bound to rx_role, where both sides are resolvable.
CheckRx(c, role_bindings, packet, contract, idx) ==
    IF RoleGet(role_bindings, contract.steps[idx].rx_role[1]) = NoStr THEN
        CheckFail([kind |-> "unknown_rx_role", scenario |-> contract.scenario,
                   step |-> idx, role |-> contract.steps[idx].rx_role[1]])
    ELSE CompareRx(
            NormalizeIpv4(DGet(HostInfoOf(c, RoleGet(role_bindings, contract.steps[idx].rx_role[1])[1]), "ip")),
            NormalizeIpv4(DGet(packet.fields, "IPv4.dst")),
            DGet(HostInfoOf(c, RoleGet(role_bindings, contract.steps[idx].rx_role[1])[1]), "mac"),
            DGet(packet.fields, "Ethernet.dst"),
            contract, idx)

\* step.field_expectations is a dict in insertion order: a sequence of
\* <<field, expected>>; the first field that violates its expectation fails.
RECURSIVE CheckExpectations(_, _, _, _)
CheckExpectations(packet, contract, idx, at) ==
    LET expectations == contract.steps[idx].field_expectations
    IN  IF at > Len(expectations) THEN CheckOk
        ELSE IF ~ExpectationMatches(DGet(packet.fields, expectations[at][1]), expectations[at][2]) THEN
            CheckFail([kind |-> "field_expectation", scenario |-> contract.scenario,
                       step |-> idx, field |-> expectations[at][1]])
        ELSE CheckExpectations(packet, contract, idx, at + 1)

\* One iteration of the loop over contract.steps.
CheckStep(c, role_bindings, packet, contract, idx) ==
    LET step == contract.steps[idx]
        expected_tx_host == RoleGet(role_bindings, step.tx_role)
    IN  IF expected_tx_host = NoStr THEN
            CheckFail([kind |-> "unknown_tx_role", scenario |-> contract.scenario,
                       step |-> idx, role |-> step.tx_role])
        ELSE IF packet.tx_host # expected_tx_host[1] THEN
            CheckFail([kind |-> "tx_host_mismatch", scenario |-> contract.scenario,
                       step |-> idx, expected |-> expected_tx_host[1], got |-> packet.tx_host])
        ELSE IF step.protocol_stack # <<>> /\ packet.protocol_stack # step.protocol_stack THEN
            CheckFail([kind |-> "protocol_stack_mismatch", scenario |-> contract.scenario,
                       step |-> idx])
        ELSE OrElse(IF Truthy(step.rx_role)
                    THEN CheckRx(c, role_bindings, packet, contract, idx)
                    ELSE CheckOk,
                    CheckExpectations(packet, contract, idx, 1))

RECURSIVE CheckSteps(_, _, _, _, _)
CheckSteps(c, role_bindings, scenario_packets, contract, idx) ==
    IF idx > Len(contract.steps) THEN CheckOk
    ELSE OrElse(CheckStep(c, role_bindings, scenario_packets[idx], contract, idx),
                CheckSteps(c, role_bindings, scenario_packets, contract, idx + 1))

\* The relation with both fields converted: both conversions are made before
\* either result is looked at, so one that raises wins.
CompareResolved(left_value, right_value, relation, contract) ==
    IF left_value.k = "raise" \/ right_value.k = "raise" THEN
        CheckRaise("OverflowError")
    ELSE IF left_value.k = "none" \/ right_value.k = "none" THEN
        CheckFail([kind |-> "relation_not_numeric", scenario |-> contract.scenario,
                   relation |-> relation])
    ELSE IF ~CompareNumeric(left_value.v, right_value.v + relation.right_delta, relation.op) THEN
        CheckFail([kind |-> "relation_failed", scenario |-> contract.scenario,
                   relation |-> relation])
    ELSE CheckOk

CheckRelation(scenario_packets, contract, at) ==
    LET relation == contract.field_relations[at]
    IN  IF relation.left_step > Len(scenario_packets) \/ relation.right_step > Len(scenario_packets) THEN
            CheckFail([kind |-> "relation_out_of_range", scenario |-> contract.scenario,
                       relation |-> relation])
        ELSE CompareResolved(
                ToNumber(DGet(scenario_packets[relation.left_step].fields, relation.left_field)),
                ToNumber(DGet(scenario_packets[relation.right_step].fields, relation.right_field)),
                relation, contract)

RECURSIVE CheckRelations(_, _, _)
CheckRelations(scenario_packets, contract, at) ==
    IF at > Len(contract.field_relations) THEN CheckOk
    ELSE OrElse(CheckRelation(scenario_packets, contract, at),
                CheckRelations(scenario_packets, contract, at + 1))

ValidateScenarioContractNoExactCount(c, role_bindings, packets, contract) ==
    LET scenario_packets == ScenarioPackets(packets, contract.scenario)
    IN  IF scenario_packets = <<>> /\ contract.required THEN
            CheckFail([kind |-> "missing_required_scenario", scenario |-> contract.scenario])
        ELSE IF scenario_packets = <<>> THEN CheckOk
        ELSE IF Len(scenario_packets) < Len(contract.steps) THEN
            CheckFail([kind |-> "too_few_packets", scenario |-> contract.scenario,
                       got |-> Len(scenario_packets), steps |-> Len(contract.steps)])
        ELSE OrElse(CheckSteps(c, role_bindings, scenario_packets, contract, 1),
                    CheckRelations(scenario_packets, contract, 1))

\* A scenario without packets is passed over, required or not
ValidateScenarioContractSkipsEmpty(c, role_bindings, packets, contract) ==
    LET scenario_packets == ScenarioPackets(packets, contract.scenario)
    IN  IF scenario_packets = <<>> THEN CheckOk
        ELSE IF Len(scenario_packets) < Len(contract.steps) THEN
            CheckFail([kind |-> "too_few_packets", scenario |-> contract.scenario,
                       got |-> Len(scenario_packets), steps |-> Len(contract.steps)])
        ELSE IF ~contract.allow_additional_packets /\ Len(scenario_packets) # Len(contract.steps) THEN
            CheckFail([kind |-> "not_exact_packets", scenario |-> contract.scenario,
                       got |-> Len(scenario_packets), steps |-> Len(contract.steps)])
        ELSE OrElse(CheckSteps(c, role_bindings, scenario_packets, contract, 1),
                    CheckRelations(scenario_packets, contract, 1))

\* _validate_scenario_contract
ValidateScenarioContract(c, role_bindings, packets, contract) ==
    LET scenario_packets == ScenarioPackets(packets, contract.scenario)
    IN  IF scenario_packets = <<>> /\ contract.required THEN
            CheckFail([kind |-> "missing_required_scenario", scenario |-> contract.scenario])
        ELSE IF scenario_packets = <<>> THEN CheckOk
        ELSE IF Len(scenario_packets) < Len(contract.steps) THEN
            CheckFail([kind |-> "too_few_packets", scenario |-> contract.scenario,
                       got |-> Len(scenario_packets), steps |-> Len(contract.steps)])
        ELSE IF ~contract.allow_additional_packets /\ Len(scenario_packets) # Len(contract.steps) THEN
            CheckFail([kind |-> "not_exact_packets", scenario |-> contract.scenario,
                       got |-> Len(scenario_packets), steps |-> Len(contract.steps)])
        ELSE OrElse(CheckSteps(c, role_bindings, scenario_packets, contract, 1),
                    CheckRelations(scenario_packets, contract, 1))

\* Index of the first TRUE of flags, 0 when there is none.
FirstTrue(flags) ==
    IF \E i \in 1..Len(flags) : flags[i]
    THEN CHOOSE i \in 1..Len(flags) : flags[i] /\ \A j \in 1..(i - 1) : ~flags[j]
    ELSE 0

\* The contracts are looked at from the last to the first
RECURSIVE CheckContractsFromLast(_, _, _, _)
CheckContractsFromLast(c, t, packets, at) ==
    IF at > Len(t.sequence_contract) THEN CheckOk
    ELSE OrElse(CheckContractsFromLast(c, t, packets, at + 1),
                ValidateScenarioContract(c, t.role_bindings, packets, t.sequence_contract[at]))

\* The loop over task.sequence_contract: the first contract whose check does
\* not return None decides.
RECURSIVE CheckContracts(_, _, _, _)
CheckContracts(c, t, packets, at) ==
    IF at > Len(t.sequence_contract) THEN CheckOk
    ELSE OrElse(ValidateScenarioContract(c, t.role_bindings, packets, t.sequence_contract[at]),
                CheckContracts(c, t, packets, at + 1))

\* The closing check under require_positive_and_negative: kind_by_scenario is
\* a dict comprehension, so the last contract of a scenario name gives its kind.
KindByScenario(t, scenario) ==
    LET at == {i \in 1..Len(t.sequence_contract) : t.sequence_contract[i].scenario = scenario}
    IN  IF at = {} THEN "none"
        ELSE t.sequence_contract[CHOOSE i \in at : \A j \in at : j <= i].kind

\* Every packet has to be of a scenario of the kind
HasKindInEveryPacket(t, packets, kind) ==
    \A i \in 1..Len(packets) : KindByScenario(t, ScenarioTag(packets[i])) = kind

HasKind(t, packets, kind) ==
    \E i \in 1..Len(packets) : KindByScenario(t, ScenarioTag(packets[i])) = kind

\* validate_packet_sequence_contract
\* The end of validate_packet_sequence_contract, once the loop over the
\* contracts has run
AfterContracts(scenarios, t, packets) ==
    IF scenarios.k # "none" THEN FromCheck(scenarios)
    ELSE IF /\ t.require_positive_and_negative
            /\ ~(HasKind(t, packets, "positive") /\ HasKind(t, packets, "negative")) THEN
        Returned("FAIL", [kind |-> "missing_positive_or_negative_packets"])
    ELSE Returned("PASS", [kind |-> "packet_sequence_satisfies_contract"])

\* A scenario of the kind is declared, required or not
RequiredOfAnyDeclared(t, kind) ==
    \E i \in 1..Len(t.sequence_contract) : t.sequence_contract[i].kind = kind

RequiredOf(t, kind) ==
    \E i \in 1..Len(t.sequence_contract) :
        t.sequence_contract[i].required /\ t.sequence_contract[i].kind = kind

ValidatePacketSequenceContract(c, t, packets) ==
    LET bad_packet == FirstTrue([i \in 1..Len(packets) |-> packets[i].tx_host \notin DOMAIN c.host_info])
        bad_role == FirstTrue([i \in 1..Len(t.role_bindings) |->
                                   t.role_bindings[i][2] \notin DOMAIN c.host_info])
    IN  IF packets = <<>> THEN
            Returned("FAIL", [kind |-> "empty_packet_sequence"])
        ELSE IF bad_packet # 0 THEN
            Returned("FAIL", [kind |-> "tx_host_not_in_topology",
                              packet_id |-> packets[bad_packet].packet_id])
        ELSE IF t.role_bindings = <<>> THEN
            Returned("FAIL", [kind |-> "empty_role_bindings"])
        ELSE IF bad_role # 0 THEN
            Returned("FAIL", [kind |-> "role_binding_unknown_host",
                              role |-> t.role_bindings[bad_role][1]])
        ELSE IF t.sequence_contract = <<>> THEN
            Returned("FAIL", [kind |-> "empty_sequence_contract"])
        ELSE IF t.require_positive_and_negative /\ ~RequiredOf(t, "positive") THEN
            Returned("FAIL", [kind |-> "no_required_positive_scenario"])
        ELSE IF t.require_positive_and_negative /\ ~RequiredOf(t, "negative") THEN
            Returned("FAIL", [kind |-> "no_required_negative_scenario"])
        ELSE AfterContracts(CheckContracts(c, t, packets, 1), t, packets)

----------------------------------------------------------------------------
(* The loaded context and the candidates the validators are called on *)

Ip_10_0_1_1 == <<"1", "0", ".", "0", ".", "1", ".", "1">>
Ip_10_0_3_3 == <<"1", "0", ".", "0", ".", "3", ".", "3">>
Mac_h1 == <<"0", "8", ":", "0", "1", ":", "1", "1">>
Mac_h3 == <<"0", "8", ":", "0", "3", ":", "3", "3">>

\* Topology of the firewall example: h1 behind s1, h3 behind s2.
HostInfo ==
    [h \in {"h1", "h3"} |->
        IF h = "h1"
        THEN [f \in {"ip", "mac"} |-> IF f = "ip" THEN PyStr(Ip_10_0_1_1) ELSE PyStr(Mac_h1)]
        ELSE [f \in {"ip", "mac"} |-> IF f = "ip" THEN PyStr(Ip_10_0_3_3) ELSE PyStr(Mac_h3)]]

\* A dict written as its items
DictOf(pairs) ==
    [key \in {pairs[i][1] : i \in 1..Len(pairs)} |->
        pairs[CHOOSE i \in 1..Len(pairs) : pairs[i][1] = key][2]]

Str_ipv4_lpm == <<"i", "p", "v", "4", "_", "l", "p", "m">>
Str_acl_ternary == <<"a", "c", "l", "_", "t", "e", "r", "n", "a", "r", "y">>
Str_port_range == <<"p", "o", "r", "t", "_", "r", "a", "n", "g", "e">>
Str_src_optional == <<"s", "r", "c", "_", "o", "p", "t", "i", "o", "n", "a", "l">>
Str_src_exact == <<"s", "r", "c", "_", "e", "x", "a", "c", "t">>
Str_ipv4_forward == <<"i", "p", "v", "4", "_", "f", "o", "r", "w", "a", "r", "d">>
Str_drop == <<"d", "r", "o", "p">>
Str_ipv4 == <<"i", "p", "v", "4">>
Str_tcp == <<"t", "c", "p">>
Str_dstAddr == <<"d", "s", "t", "A", "d", "d", "r">>
Str_srcAddr == <<"s", "r", "c", "A", "d", "d", "r">>
Str_dstPort == <<"d", "s", "t", "P", "o", "r", "t">>
Str_port == <<"p", "o", "r", "t">>
Str_lpm == <<"l", "p", "m">>
Str_exact == <<"e", "x", "a", "c", "t">>
Str_ternary == <<"t", "e", "r", "n", "a", "r", "y">>
Str_range == <<"r", "a", "n", "g", "e">>
Str_optional == <<"o", "p", "t", "i", "o", "n", "a", "l">>
Str_hdr_ipv4_dstAddr == <<"h", "d", "r", ".", "i", "p", "v", "4", ".", "d", "s", "t", "A", "d", "d", "r">>
Str_hdr_ipv4_srcAddr == <<"h", "d", "r", ".", "i", "p", "v", "4", ".", "s", "r", "c", "A", "d", "d", "r">>
Str_hdr_tcp_dstPort == <<"h", "d", "r", ".", "t", "c", "p", ".", "d", "s", "t", "P", "o", "r", "t">>

\* A table of the compiled program: its allowed actions and its one key
TableJson(actions, header, field, match_type) ==
    PyDict(DictOf(<<
        <<"actions", PyList([i \in 1..Len(actions) |-> PyStr(actions[i])])>>,
        <<"key", PyList(<<PyDict(DictOf(<<
                    <<"target", PyList(<<PyStr(header), PyStr(field)>>)>>,
                    <<"match_type", PyStr(match_type)>> >>))>>)>> >>))

\* An action of the compiled program: the names of its runtime parameters
ActionJson(params) ==
    PyDict(DictOf(<<
        <<"runtime_data", PyList([i \in 1..Len(params) |->
                                    PyDict(DictOf(<<<<"name", PyStr(params[i])>>>>))])>> >>))

\* tables_by_name: the lpm forwarding table of the firewall example and one
\* table for each other match type
TablesByName ==
    DictOf(<<
        <<Str_ipv4_lpm, TableJson(<<Str_ipv4_forward, Str_drop>>, Str_ipv4, Str_dstAddr, Str_lpm)>>,
        <<Str_acl_ternary, TableJson(<<Str_ipv4_forward, Str_drop>>, Str_ipv4, Str_dstAddr, Str_ternary)>>,
        <<Str_port_range, TableJson(<<Str_drop>>, Str_tcp, Str_dstPort, Str_range)>>,
        <<Str_src_optional, TableJson(<<Str_drop>>, Str_ipv4, Str_srcAddr, Str_optional)>>,
        <<Str_src_exact, TableJson(<<Str_drop>>, Str_ipv4, Str_srcAddr, Str_exact)>> >>)

ActionsByName ==
    DictOf(<<
        <<Str_ipv4_forward, ActionJson(<<Str_dstAddr, Str_port>>)>>,
        <<Str_drop, ActionJson(<<>>)>> >>)

\* A context without a control-flow graph or a parser
NoGraph == [nodes |-> <<>>, edges |-> <<>>]
NoParser == <<>>

Context ==
    [host_info |-> HostInfo, tables_by_name |-> TablesByName, actions_by_name |-> ActionsByName,
     dot_graph |-> NoGraph, parsers |-> NoParser]

RoleBindings == <<<<"initiator", "h1">>, <<"responder", "h3">>>>

NotCalled == [kind |-> "none", status |-> "NONE", feedback |-> [kind |-> "none"]]

\* No traversal running
Idle == [op |-> "idle"]

\* No validator has been called
NoHistory ==
    [validate_packet_sequence_contract |-> NotCalled,
     validate_control_plane_entities |-> NotCalled,
     validate_execution_sequence |-> NotCalled,
     ranked_tables |-> NotCalled]

\* Sequences over pool of length 0..n
SeqsUpTo(pool, n) == UNION {[1..len -> pool] : len \in 0..n}

\* Bounds of the candidates
MaxPackets == 3
MaxSteps == 2

Step(tx_role, rx_role, protocol_stack, field_expectations) ==
    [tx_role |-> tx_role, rx_role |-> rx_role, protocol_stack |-> protocol_stack,
     field_expectations |-> field_expectations]

Contract(scenario, kind, required, allow_additional_packets, steps, field_relations) ==
    [scenario |-> scenario, kind |-> kind, required |-> required,
     allow_additional_packets |-> allow_additional_packets,
     steps |-> steps, field_relations |-> field_relations]

Packet(packet_id, tx_host, scenario, protocol_stack, fields) ==
    [packet_id |-> packet_id, tx_host |-> tx_host, scenario |-> scenario,
     protocol_stack |-> protocol_stack, fields |-> fields]

Task(role_bindings, sequence_contract, require_positive_and_negative) ==
    [role_bindings |-> role_bindings, sequence_contract |-> sequence_contract,
     require_positive_and_negative |-> require_positive_and_negative]

\* packet_id is the position in the sequence, as the generator numbers them
Numbered(shapes) == [i \in 1..Len(shapes) |-> [shapes[i] EXCEPT !.packet_id = i]]

TcpStack == <<"Ethernet", "IPv4", "TCP">>

----------------------------------------------------------------------------
(* Candidates that differ in how many packets each scenario carries *)

PlainStep == Step("initiator", <<>>, <<>>, <<>>)

CountContracts(scenario, kind) ==
    {Contract(scenario, kind, required, allow, [i \in 1..n |-> PlainStep], <<>>) :
        required \in BOOLEAN, allow \in BOOLEAN, n \in 0..MaxSteps}

CountContractLists ==
    {<<>>}
    \cup {<<c>> : c \in CountContracts("pos", "positive")}
    \cup {<<c1, c2>> : c1 \in CountContracts("pos", "positive"), c2 \in CountContracts("neg", "negative")}

CountPacketShapes ==
    {Packet(0, "h1", tag, TcpStack, EmptyDict) : tag \in {<<"pos">>, <<"neg">>, <<>>}}

CountTasks ==
    {Task(RoleBindings, contracts, flag) : contracts \in CountContractLists, flag \in BOOLEAN}

InitCount ==
    /\ ctx = Context
    /\ task \in CountTasks
    /\ packet_sequence \in {Numbered(shapes) : shapes \in SeqsUpTo(CountPacketShapes, MaxPackets)}
    /\ entities = <<>>
    /\ control_plane_sequence = <<>>
    /\ execution_sequence = <<>>
    /\ walk = Idle
    /\ history = NoHistory
    /\ outcome = NotCalled

\* A call of validate_packet_sequence_contract(ctx, task, packet_sequence)
CallValidatePacketSequenceContract ==
    /\ outcome' = ValidatePacketSequenceContract(ctx, task, packet_sequence)
    /\ history' = [history EXCEPT !.validate_packet_sequence_contract = outcome']
    /\ UNCHANGED <<inputs, walk>>

NextCount == CallValidatePacketSequenceContract

SpecCount == InitCount /\ [][NextCount]_vars

----------------------------------------------------------------------------
(* Claims about the packet count of a scenario *)

\* Number of packets of the candidate that carry the tag of a scenario
TaggedCount(scenario) ==
    Cardinality({i \in 1..Len(packet_sequence) : ScenarioTag(packet_sequence[i]) = scenario})

\* A declared contract that forbids additional packets and whose packet count
\* is not its step count
CountMismatch(contract) ==
    /\ ~contract.allow_additional_packets
    /\ TaggedCount(contract.scenario) # Len(contract.steps)

----------------------------------------------------------------------------
(* Candidates that differ in the fields a relation compares *)

MaxDelta == 1

Str_1000 == <<"1", "0", "0", "0">>
Str_0x3E8 == <<"0", "x", "3", "E", "8">>
Str_abc == <<"a", "b", "c">>
Str_1001_padded == <<" ", "1", "0", "0", "1">>
Str_0X3e9 == <<"0", "X", "3", "e", "9">>

\* TCP.seq of the first packet
SeqValues == {PyInt(1000), PyStr(Str_1000), PyStr(Str_0x3E8), PyStr(Str_abc), BigInt}

\* TCP.ack of the second packet; None stands for a packet without the field
AckValues == {PyInt(1001), PyInt(1002), PyStr(Str_1001_padded), PyStr(Str_0X3e9),
              PyFloat(10015), None}

Fields(seq, ack) ==
    IF ack = None THEN [f \in {"TCP.seq"} |-> seq]
    ELSE [f \in {"TCP.seq", "TCP.ack"} |-> IF f = "TCP.seq" THEN seq ELSE ack]

Relation(left_step, left_field, op, right_step, right_field, right_delta) ==
    [left_step |-> left_step, left_field |-> left_field, op |-> op,
     right_step |-> right_step, right_field |-> right_field, right_delta |-> right_delta]

CompareOps == {"eq", "neq", "gt", "lt", "ge", "le"}

\* right_delta is a float, held in tenths
Relations ==
    {Relation(left_step, "TCP.ack", op, right_step, "TCP.seq", 10 * delta) :
        left_step \in 1..3, op \in CompareOps, right_step \in 1..2, delta \in -MaxDelta..MaxDelta}

\* ack(step 2) <= seq(step 2), true of every candidate below whose ack is a number
LaterRelation == Relation(2, "TCP.ack", "le", 2, "TCP.seq", 0)

RelationLists ==
    {<<>>} \cup {<<r>> : r \in Relations} \cup {<<r, LaterRelation>> : r \in Relations}
           \cup {<<LaterRelation, r>> : r \in Relations}

RelationTasks ==
    {Task(RoleBindings,
          <<Contract("pos", "positive", TRUE, allow, <<PlainStep, PlainStep>>, relations)>>,
          FALSE) :
        allow \in BOOLEAN, relations \in RelationLists}

RelationPacketSequences ==
    LET first(seq) == Packet(1, "h1", <<"pos">>, TcpStack, Fields(seq, None))
        second(ack) == Packet(2, "h1", <<"pos">>, TcpStack, Fields(PyInt(5000), ack))
        third == Packet(3, "h1", <<"pos">>, TcpStack, Fields(PyInt(7000), PyInt(7001)))
    IN  {<<first(seq), second(ack)>> : seq \in SeqValues, ack \in AckValues}
        \cup {<<first(seq), second(ack), third>> : seq \in SeqValues, ack \in AckValues}

InitRelation ==
    /\ ctx = Context
    /\ task \in RelationTasks
    /\ packet_sequence \in RelationPacketSequences
    /\ entities = <<>>
    /\ control_plane_sequence = <<>>
    /\ execution_sequence = <<>>
    /\ walk = Idle
    /\ history = NoHistory
    /\ outcome = NotCalled

NextRelation == CallValidatePacketSequenceContract

SpecRelation == InitRelation /\ [][NextRelation]_vars

----------------------------------------------------------------------------
(* Claims about field relations *)

\* The number, in tenths, that each field value of the candidates above is
\* meant to denote: <<>> when it denotes none.  The int beyond the float range
\* is a number larger than every other one.
HugeNumber == 10 ^ 9

IntendedNumber(value) ==
    CASE value.t = "int" -> <<10 * value.n>>
      [] value.t = "float" -> <<value.n>>
      [] value.t = "bigint" -> <<HugeNumber>>
      [] value = PyStr(Str_1000) -> <<10000>>
      [] value = PyStr(Str_0x3E8) -> <<10000>>
      [] value = PyStr(Str_1001_padded) -> <<10010>>
      [] value = PyStr(Str_0X3e9) -> <<10010>>
      [] OTHER -> <<>>

\* left <op> right, as the contract language defines the operators
OperatorHolds(left, op, right) ==
    \/ op = "eq" /\ left = right
    \/ op = "neq" /\ left # right
    \/ op = "gt" /\ left > right
    \/ op = "lt" /\ left < right
    \/ op = "ge" /\ left >= right
    \/ op = "le" /\ left <= right

\* The relation holds of the packets of the scenario: both fields exist and
\* denote numbers, and left <op> right + right_delta.
RelationSatisfied(relation, scenario_packets) ==
    /\ relation.left_step <= Len(scenario_packets)
    /\ relation.right_step <= Len(scenario_packets)
    /\ LET left == IntendedNumber(DGet(scenario_packets[relation.left_step].fields, relation.left_field))
           right == IntendedNumber(DGet(scenario_packets[relation.right_step].fields, relation.right_field))
       IN  /\ left # <<>>
           /\ right # <<>>
           /\ OperatorHolds(left[1], relation.op, right[1] + relation.right_delta)

\* The single scenario of a relation candidate passes its count check (its
\* step checks pass by construction).
CountAndStepsPass ==
    LET contract == task.sequence_contract[1]
    IN  \/ Len(packet_sequence) = Len(contract.steps)
        \/ contract.allow_additional_packets /\ Len(packet_sequence) > Len(contract.steps)

FirstUnsatisfied(relations, scenario_packets) ==
    CHOOSE i \in 1..Len(relations) :
        /\ ~RelationSatisfied(relations[i], scenario_packets)
        /\ \A j \in 1..(i - 1) : RelationSatisfied(relations[j], scenario_packets)

RelationsDecideVerdict ==
    LET contract == task.sequence_contract[1]
        relations == contract.field_relations
        all_satisfied == \A i \in 1..Len(relations) : RelationSatisfied(relations[i], packet_sequence)
    IN  IF all_satisfied THEN outcome.status = "PASS"
        ELSE /\ outcome.status = "FAIL"
             /\ outcome.feedback.kind \in {"relation_out_of_range", "relation_not_numeric", "relation_failed"}
             /\ outcome.feedback.scenario = contract.scenario
             /\ outcome.feedback.relation = relations[FirstUnsatisfied(relations, packet_sequence)]

\* C4 as stated: for a scenario whose count and step checks pass, the verdict
\* is PASS when every declared relation is satisfied (both fields denote
\* numbers and left <op> right + right_delta holds) and otherwise FAIL with a
\* feedback that names the scenario and the first unsatisfied relation.
C4_RelationsDecideVerdict ==
    (outcome.kind # "none" /\ CountAndStepsPass) => RelationsDecideVerdict

\* A field that a declared relation reads holds an int beyond the float range.
RelationReadsBigInt ==
    LET relations == task.sequence_contract[1].field_relations
    IN  \E i \in 1..Len(relations) :
           \/ /\ relations[i].left_step <= Len(packet_sequence)
              /\ DGet(packet_sequence[relations[i].left_step].fields, relations[i].left_field) = BigInt
           \/ /\ relations[i].right_step <= Len(packet_sequence)
              /\ DGet(packet_sequence[relations[i].right_step].fields, relations[i].right_field) = BigInt

\* What remains of C4 on the candidates whose relations read no int beyond the
\* float range.
C4_HoldsWithinFloatRange ==
    (outcome.kind # "none" /\ CountAndStepsPass /\ ~RelationReadsBigInt) => RelationsDecideVerdict

\* The example of C4: ack(step 2) = seq(step 1) + 1 with seq = 1000 and
\* ack = 1002 fails on the relation.
C4_ExampleFails ==
    /\ outcome.status = "FAIL"
    /\ outcome.feedback.kind = "relation_failed"
    /\ task.sequence_contract[1].field_relations = <<Relation(2, "TCP.ack", "eq", 1, "TCP.seq", 10)>>
    /\ packet_sequence[1].fields["TCP.seq"] = PyInt(1000)
    /\ DGet(packet_sequence[2].fields, "TCP.ack") = PyInt(1002)

----------------------------------------------------------------------------
(* Control-plane entity validator *)

\* _extract_packet_destination_ips: the normalized IPv4.dst of every packet
\* whose protocol_stack names IPv4
ExtractPacketDestinationIps(packets) ==
    {ip \in {NormalizeIpv4(DGet(packets[i].fields, "IPv4.dst")) :
                i \in {j \in 1..Len(packets) :
                          \E at \in 1..Len(packets[j].protocol_stack) :
                              packets[j].protocol_stack[at] = "IPv4"}} : ip # NoStr}

\* The destination a match-key value names: a string, the head of a
\* non-empty list, or the first of value/ip/addr of a dict that normalizes.
RuleValueIp(value) ==
    IF value.t = "str" THEN NormalizeIpv4(value)
    ELSE IF value.t = "list" /\ value.l # <<>> THEN NormalizeIpv4(value.l[1])
    ELSE IF value.t = "dict" THEN
        IF NormalizeIpv4(DGet(value.d, "value")) # NoStr THEN NormalizeIpv4(DGet(value.d, "value"))
        ELSE IF NormalizeIpv4(DGet(value.d, "ip")) # NoStr THEN NormalizeIpv4(DGet(value.d, "ip"))
        ELSE NormalizeIpv4(DGet(value.d, "addr"))
    ELSE NoStr

Str_dstaddr == <<"d", "s", "t", "a", "d", "d", "r">>
Str_ipv4_dst == <<"i", "p", "v", "4", ".", "d", "s", "t">>

ExtractRuleDestinationIpsAnyKey(rule) ==
    {ip \in {RuleValueIp(rule.match_keys[key]) : key \in DOMAIN rule.match_keys} : ip # NoStr}

\* _extract_rule_destination_ips: only keys whose lowered name contains
\* "dstaddr" or "ipv4.dst" count
ExtractRuleDestinationIps(rule) ==
    {ip \in {RuleValueIp(rule.match_keys[key]) :
                key \in {k \in DOMAIN rule.match_keys :
                            \/ IsSubstring(Str_dstaddr, Lower(k))
                            \/ IsSubstring(Str_ipv4_dst, Lower(k))}} : ip # NoStr}

Str_hdr_dot == <<"h", "d", "r", ".">>

\* _normalize_table_key_field: "hdr.<header>.<field>" of a [header, field]
\* target, a string target as it is, None (<<>>) otherwise; <<name>> is the name
NormalizeTableKeyField(key) ==
    IF key.t # "dict" THEN <<>>
    ELSE LET target == DGet(key.d, "target")
         IN  IF /\ target.t = "list"
                /\ Len(target.l) = 2
                /\ \A i \in 1..2 : IsStr(target.l[i])
             THEN <<Str_hdr_dot \o target.l[1].s \o <<".">> \o target.l[2].s>>
             ELSE IF IsStr(target) THEN <<target.s>>
             ELSE <<>>

\* _normalize_match_type: stripped and lowered, None (<<>>) for a non-string or
\* an empty result
NormalizeMatchType(value) ==
    IF ~IsStr(value) THEN <<>>
    ELSE IF Lower(Strip(value.s)) = <<>> THEN <<>>
    ELSE <<Lower(Strip(value.s))>>

\* _collect_table_match_types
CollectTableMatchTypes(table_keys) ==
    IF table_keys.t # "list" THEN {}
    ELSE {NormalizeMatchType(DGet(table_keys.l[i].d, "match_type"))[1] :
             i \in {j \in 1..Len(table_keys.l) :
                       /\ table_keys.l[j].t = "dict"
                       /\ NormalizeMatchType(DGet(table_keys.l[j].d, "match_type")) # <<>>}}

PriorityMatchTypesTernaryOnly == {<<"t", "e", "r", "n", "a", "r", "y">>}

PriorityMatchTypes == {<<"t", "e", "r", "n", "a", "r", "y">>, <<"r", "a", "n", "g", "e">>, <<"o", "p", "t", "i", "o", "n", "a", "l">>}

\* dict.get(key, []) on a JSON object
DGetList(d, key) == IF key \in DOMAIN d THEN d[key] ELSE PyList(<<>>)

\* The checks of one entity, in the order of the loop body
CheckEntity(c, rule, idx) ==
    LET table == DGet(c.tables_by_name, rule.table_name)
        table_actions == DGetList(table.d, "actions")
        table_keys == DGetList(table.d, "key")
        key_match_types == CollectTableMatchTypes(table_keys)
        rule_match_type == NormalizeMatchType(PyStr(rule.match_type))
        required_key_fields ==
            {NormalizeTableKeyField(table_keys.l[i])[1] :
                i \in {j \in 1..Len(table_keys.l) : NormalizeTableKeyField(table_keys.l[j]) # <<>>}}
        missing == {field \in required_key_fields : field \notin DOMAIN rule.match_keys}
        action == DGet(c.actions_by_name, rule.action_name)
        runtime_data == DGetList(action.d, "runtime_data")
        required_params ==
            IF runtime_data.t # "list" THEN {}
            ELSE {DGet(runtime_data.l[i].d, "name") :
                     i \in {j \in 1..Len(runtime_data.l) : runtime_data.l[j].t = "dict"}}
        missing_params == {param.s : param \in {q \in required_params :
                                                   IsStr(q) /\ q.s \notin DOMAIN rule.action_data}}
    IN  IF table.t # "dict" THEN
            CheckFail([kind |-> "unknown_table", entity |-> idx])
        ELSE IF ~(/\ table_actions.t = "list"
                  /\ \E i \in 1..Len(table_actions.l) :
                        PyEq(PyStr(rule.action_name), table_actions.l[i])) THEN
            CheckFail([kind |-> "action_not_allowed", entity |-> idx])
        ELSE IF /\ key_match_types # {}
                /\ (rule_match_type = <<>> \/ rule_match_type[1] \notin key_match_types) THEN
            CheckFail([kind |-> "match_type_incompatible", entity |-> idx])
        ELSE IF key_match_types \cap PriorityMatchTypes # {} /\ rule.priority = <<>> THEN
            CheckFail([kind |-> "priority_required", entity |-> idx])
        ELSE IF table_keys.t = "list" /\ missing # {} THEN
            CheckFail([kind |-> "missing_match_keys", entity |-> idx, missing |-> missing])
        ELSE IF action.t = "dict" /\ missing_params # {} THEN
            CheckFail([kind |-> "missing_action_params", entity |-> idx, missing |-> missing_params])
        ELSE CheckOk

\* The entities are looked at from the last to the first
RECURSIVE CheckEntitiesFromLast(_, _, _)
CheckEntitiesFromLast(c, rules, idx) ==
    IF idx > Len(rules) THEN CheckOk
    ELSE OrElse(CheckEntitiesFromLast(c, rules, idx + 1), CheckEntity(c, rules[idx], idx))

RECURSIVE CheckEntities(_, _, _)
CheckEntities(c, rules, idx) ==
    IF idx > Len(rules) THEN CheckOk
    ELSE LET res == CheckEntity(c, rules[idx], idx)
         IN  IF res.k # "none" THEN res
             ELSE CheckEntities(c, rules, idx + 1)

\* validate_control_plane_entities
ValidateControlPlaneEntities(c, t, packets, rules) ==
    LET per_entity == CheckEntities(c, rules, 1)
        packet_dst_ips == ExtractPacketDestinationIps(packets)
        covered_ips == UNION {ExtractRuleDestinationIps(rules[i]) : i \in 1..Len(rules)}
        uncovered == {ip[1] : ip \in packet_dst_ips \ covered_ips}
        missing_role_hosts == {t.role_bindings[i] : i \in {j \in 1..Len(t.role_bindings) :
                                  t.role_bindings[j][2] \notin DOMAIN c.host_info}}
    IN  IF rules = <<>> THEN
            Returned("FAIL", [kind |-> "empty_entities"])
        ELSE IF per_entity.k # "none" THEN FromCheck(per_entity)
        ELSE IF uncovered # {} THEN
            Returned("FAIL", [kind |-> "uncovered_destination_ips", ips |-> uncovered])
        ELSE IF t.role_bindings = <<>> THEN
            Returned("FAIL", [kind |-> "task_role_bindings_empty"])
        ELSE IF missing_role_hosts # {} THEN
            Returned("FAIL", [kind |-> "role_hosts_not_in_topology", missing |-> missing_role_hosts])
        ELSE Returned("PASS", [kind |-> "entities_valid"])

\* A validator that fills in the priority its entities lack
CallValidateControlPlaneEntitiesFillingPriority ==
    /\ outcome' = ValidateControlPlaneEntities(ctx, task, packet_sequence, entities)
    /\ history' = [history EXCEPT !.validate_control_plane_entities = outcome']
    /\ entities' = [i \in 1..Len(entities) |->
                       IF entities[i].priority = <<>> THEN [entities[i] EXCEPT !.priority = <<1>>]
                       ELSE entities[i]]
    /\ UNCHANGED <<ctx, task, packet_sequence, control_plane_sequence, execution_sequence, walk>>

\* A call of validate_control_plane_entities(ctx, task, packet_sequence, entities)
CallValidateControlPlaneEntities ==
    /\ outcome' = ValidateControlPlaneEntities(ctx, task, packet_sequence, entities)
    /\ history' = [history EXCEPT !.validate_control_plane_entities = outcome']
    /\ UNCHANGED <<inputs, walk>>

----------------------------------------------------------------------------
(* Candidates that differ in which destinations the packets name and the
   entities match *)

TableRule(table_name, match_type, match_keys, action_name, action_data, priority) ==
    [table_name |-> table_name, match_type |-> match_type, match_keys |-> match_keys,
     action_name |-> action_name, action_data |-> action_data, priority |-> priority]

MaxEntities == 2
MaxCoveragePackets == 2

Ip_10_0_9_9 == <<"1", "0", ".", "0", ".", "9", ".", "9">>
Str_10_0_1_1_slash_24 == <<"1", "0", ".", "0", ".", "1", ".", "1", "/", "2", "4">>
Str_10_0_3_3_padded == <<" ", "1", "0", ".", "0", ".", "3", ".", "3", " ">>
Str_10_0_9_9_slash_8 == <<"1", "0", ".", "0", ".", "9", ".", "9", "/", "8">>
Str_any == <<"a", "n", "y">>
Str_unknown_table == <<"n", "o", "_", "s", "u", "c", "h", "_", "t", "a", "b", "l", "e">>

\* IPv4.dst of a packet; None stands for a packet without the field
PacketDstValues ==
    {PyStr(Ip_10_0_1_1), PyStr(Str_10_0_3_3_padded), PyStr(Str_10_0_9_9_slash_8),
     PyStr(Str_any), None}

EthernetStack == <<"Ethernet">>

DstFields(dst) == IF dst = None THEN EmptyDict ELSE [f \in {"IPv4.dst"} |-> dst]

CoveragePacketShapes ==
    {Packet(0, "h1", <<"pos">>, TcpStack, DstFields(dst)) : dst \in PacketDstValues}
    \cup {Packet(0, "h1", <<"pos">>, EthernetStack, DstFields(PyStr(Ip_10_0_9_9)))}

\* What an entity gives as the destination it matches
RuleDstValues ==
    {PyList(<<PyStr(Ip_10_0_3_3), PyInt(32)>>),
     PyStr(Str_10_0_1_1_slash_24),
     PyDict(DictOf(<<<<"value", PyStr(Ip_10_0_9_9)>>, <<"mask", PyStr(Str_any)>>>>)),
     PyDict(DictOf(<<<<"value", PyStr(Str_any)>>, <<"ip", PyStr(Ip_10_0_3_3)>>>>)),
     PyList(<<>>),
     PyInt(5)}

\* Entities that pass every check of their own, one that matches a source
\* address, and one on a table the program does not have
CoverageRules ==
    {TableRule(Str_ipv4_lpm, Str_lpm, DictOf(<<<<Str_hdr_ipv4_dstAddr, value>>>>),
               Str_drop, EmptyDict, <<>>) : value \in RuleDstValues}
    \cup {TableRule(Str_src_exact, Str_exact,
                    DictOf(<<<<Str_hdr_ipv4_srcAddr, PyStr(Ip_10_0_9_9)>>>>),
                    Str_drop, EmptyDict, <<>>),
          TableRule(Str_unknown_table, Str_lpm,
                    DictOf(<<<<Str_hdr_ipv4_dstAddr, PyStr(Ip_10_0_9_9)>>>>),
                    Str_drop, EmptyDict, <<>>)}

InitCoverage ==
    /\ ctx = Context
    /\ task = Task(RoleBindings, <<>>, FALSE)
    /\ packet_sequence \in {Numbered(shapes) :
                               shapes \in SeqsUpTo(CoveragePacketShapes, MaxCoveragePackets)}
    /\ entities \in SeqsUpTo(CoverageRules, MaxEntities)
    /\ control_plane_sequence = <<>>
    /\ execution_sequence = <<>>
    /\ outcome = NotCalled
    /\ walk = Idle
    /\ history = NoHistory

NextCoverage == CallValidateControlPlaneEntities

SpecCoverage == InitCoverage /\ [][NextCoverage]_vars

\* The address each destination value of the candidates stands for, written
\* out by hand: {} where the value names no address
AddressOf(value) ==
    CASE value = PyStr(Ip_10_0_1_1) -> {Ip_10_0_1_1}
      [] value = PyStr(Str_10_0_1_1_slash_24) -> {Ip_10_0_1_1}
      [] value = PyStr(Ip_10_0_3_3) -> {Ip_10_0_3_3}
      [] value = PyStr(Str_10_0_3_3_padded) -> {Ip_10_0_3_3}
      [] value = PyStr(Ip_10_0_9_9) -> {Ip_10_0_9_9}
      [] value = PyStr(Str_10_0_9_9_slash_8) -> {Ip_10_0_9_9}
      [] value = PyList(<<PyStr(Ip_10_0_3_3), PyInt(32)>>) -> {Ip_10_0_3_3}
      [] value = PyDict(DictOf(<<<<"value", PyStr(Ip_10_0_9_9)>>, <<"mask", PyStr(Str_any)>>>>))
            -> {Ip_10_0_9_9}
      [] value = PyDict(DictOf(<<<<"value", PyStr(Str_any)>>, <<"ip", PyStr(Ip_10_0_3_3)>>>>))
            -> {Ip_10_0_3_3}
      [] OTHER -> {}

\* Destination addresses the entities match: those under a destination key
MatchedDestinations ==
    UNION {AddressOf(entities[i].match_keys[Str_hdr_ipv4_dstAddr]) :
              i \in {j \in 1..Len(entities) : Str_hdr_ipv4_dstAddr \in DOMAIN entities[j].match_keys}}

\* Destination addresses of the packets, whatever their protocol stack
AllPacketDestinations ==
    UNION {AddressOf(packet_sequence[i].fields["IPv4.dst"]) :
              i \in {j \in 1..Len(packet_sequence) : "IPv4.dst" \in DOMAIN packet_sequence[j].fields}}

\* Destination addresses of the packets whose protocol stack names IPv4
Ipv4PacketDestinations ==
    UNION {AddressOf(packet_sequence[i].fields["IPv4.dst"]) :
              i \in {j \in 1..Len(packet_sequence) :
                        /\ "IPv4.dst" \in DOMAIN packet_sequence[j].fields
                        /\ \E at \in 1..Len(packet_sequence[j].protocol_stack) :
                              packet_sequence[j].protocol_stack[at] = "IPv4"}}

EntityCheckKinds ==
    {"empty_entities", "unknown_table", "action_not_allowed", "match_type_incompatible",
     "priority_required", "missing_match_keys", "missing_action_params"}

CitesAddress(address) ==
    /\ outcome.feedback.kind = "uncovered_destination_ips"
    /\ address \in outcome.feedback.ips

\* C2 (as stated): if the destination address of some packet is matched by no
\* entity, validate_control_plane_entities returns FAIL and its feedback cites
\* that address.
C2_UncoveredDestinationFailsCitingIt ==
    outcome # NotCalled =>
        \A address \in AllPacketDestinations \ MatchedDestinations :
            outcome.status = "FAIL" /\ CitesAddress(address)

\* C2 (amended): if the destination address of some packet whose protocol
\* stack names IPv4 is matched by no entity, validate_control_plane_entities
\* returns FAIL; its feedback cites that address unless it reports the entity
\* list as empty or an entity as failing a check of its own.
C2_UncoveredIpv4DestinationFails ==
    outcome # NotCalled =>
        \A address \in Ipv4PacketDestinations \ MatchedDestinations :
            /\ outcome.kind = "return"
            /\ outcome.status = "FAIL"
            /\ outcome.feedback.kind \notin EntityCheckKinds => CitesAddress(address)

\* C2 witness: entities that pass their own checks, a padded packet
\* destination none of them matches, and the FAIL that cites it
C2_Witness ==
    /\ outcome.status = "FAIL"
    /\ Len(entities) = 2
    /\ CitesAddress(Ip_10_0_3_3)
    /\ \E i \in 1..Len(packet_sequence) :
          packet_sequence[i].fields = DstFields(PyStr(Str_10_0_3_3_padded))

----------------------------------------------------------------------------
(* Candidates on tables of every match type, first without a priority *)

MaxPriority == 2

Str_ternary_padded == <<" ", "T", "E", "R", "N", "A", "R", "Y", " ">>
Mac_value == PyStr(Mac_h3)

ForwardData == DictOf(<<<<Str_dstAddr, Mac_value>>, <<Str_port, PyInt(3)>>>>)

TernaryDst == PyDict(DictOf(<<<<"value", PyStr(Ip_10_0_3_3)>>, <<"mask", PyStr(Str_any)>>>>))

\* One entity for each table, all they lack is a priority; then an entity of
\* the ternary table with the match type of another table, and one without
\* its match key
PriorityRules ==
    {TableRule(Str_ipv4_lpm, Str_lpm,
               DictOf(<<<<Str_hdr_ipv4_dstAddr, PyList(<<PyStr(Ip_10_0_3_3), PyInt(32)>>)>>>>),
               Str_ipv4_forward, ForwardData, <<>>),
     TableRule(Str_acl_ternary, Str_ternary, DictOf(<<<<Str_hdr_ipv4_dstAddr, TernaryDst>>>>),
               Str_ipv4_forward, ForwardData, <<>>),
     TableRule(Str_acl_ternary, Str_ternary_padded, DictOf(<<<<Str_hdr_ipv4_dstAddr, TernaryDst>>>>),
               Str_drop, EmptyDict, <<>>),
     TableRule(Str_port_range, Str_range,
               DictOf(<<<<Str_hdr_tcp_dstPort, PyList(<<PyInt(80), PyInt(90)>>)>>>>),
               Str_drop, EmptyDict, <<>>),
     TableRule(Str_src_optional, Str_optional,
               DictOf(<<<<Str_hdr_ipv4_srcAddr, PyStr(Ip_10_0_1_1)>>>>),
               Str_drop, EmptyDict, <<>>),
     TableRule(Str_acl_ternary, Str_lpm, DictOf(<<<<Str_hdr_ipv4_dstAddr, TernaryDst>>>>),
               Str_drop, EmptyDict, <<>>),
     TableRule(Str_acl_ternary, Str_ternary, EmptyDict, Str_drop, EmptyDict, <<>>)}

PriorityPacketSequences ==
    {<<>>,
     <<Packet(1, "h1", <<"pos">>, TcpStack, DstFields(PyStr(Ip_10_0_3_3)))>>,
     <<Packet(1, "h1", <<"pos">>, TcpStack, DstFields(PyStr(Ip_10_0_9_9)))>>}

InitPriority ==
    /\ ctx = Context
    /\ task = Task(RoleBindings, <<>>, FALSE)
    /\ packet_sequence \in PriorityPacketSequences
    /\ entities \in SeqsUpTo(PriorityRules, MaxEntities)
    /\ control_plane_sequence = <<>>
    /\ execution_sequence = <<>>
    /\ outcome = NotCalled
    /\ walk = Idle
    /\ history = NoHistory

\* The caller gives the entity the validator named a priority and nothing
\* else, as the test of the ternary table does before it validates again
SupplyPriority ==
    /\ outcome.kind = "return"
    /\ outcome.feedback.kind = "priority_required"
    /\ \E priority \in 1..MaxPriority :
          entities' = [entities EXCEPT ![outcome.feedback.entity].priority = <<priority>>]
    /\ outcome' = NotCalled
    /\ UNCHANGED <<ctx, task, packet_sequence, control_plane_sequence, execution_sequence, walk,
                 history>>

NextPriority == CallValidateControlPlaneEntities \/ SupplyPriority

SpecPriority == InitPriority /\ [][NextPriority]_vars

\* The schema of the tables, written out by hand
PriorityTables == {Str_acl_ternary, Str_port_range, Str_src_optional}

SchemaMatchType(table_name) ==
    CASE table_name = Str_ipv4_lpm -> Str_lpm
      [] table_name = Str_acl_ternary -> Str_ternary
      [] table_name = Str_port_range -> Str_range
      [] table_name = Str_src_optional -> Str_optional
      [] table_name = Str_src_exact -> Str_exact

SchemaKeyField(table_name) ==
    CASE table_name \in {Str_ipv4_lpm, Str_acl_ternary} -> Str_hdr_ipv4_dstAddr
      [] table_name = Str_port_range -> Str_hdr_tcp_dstPort
      [] table_name \in {Str_src_optional, Str_src_exact} -> Str_hdr_ipv4_srcAddr

LacksPriority(rule) == rule.table_name \in PriorityTables /\ rule.priority = <<>>

\* Valid but for the priority: the match type is the table's, whatever its
\* case and padding, and the match key is given (table, action and action
\* data are valid in every candidate)
ValidButPriority(rule) ==
    /\ rule.match_type \in {SchemaMatchType(rule.table_name), Str_ternary_padded}
    /\ SchemaKeyField(rule.table_name) \in DOMAIN rule.match_keys

\* C5: an entity on a table with a ternary, range or optional key and no
\* priority makes validate_control_plane_entities return FAIL; once no entity
\* lacks a priority, a call whose inputs are valid otherwise returns PASS.
C5_PriorityRequiredForTernaryRangeOptional ==
    outcome # NotCalled =>
        /\ (\E i \in 1..Len(entities) : LacksPriority(entities[i])) =>
              outcome.kind = "return" /\ outcome.status = "FAIL"
        /\ ( /\ entities # <<>>
             /\ \A i \in 1..Len(entities) :
                   ~LacksPriority(entities[i]) /\ ValidButPriority(entities[i])
             /\ Ipv4PacketDestinations \subseteq MatchedDestinations ) =>
              outcome.kind = "return" /\ outcome.status = "PASS"

\* C5 witness: the entities of a call that failed for a missing priority, now
\* with the priority supplied, pass
C5_Witness ==
    /\ outcome.status = "PASS"
    /\ Len(entities) = 2
    /\ \A i \in 1..Len(entities) :
          entities[i].table_name \in PriorityTables /\ entities[i].priority # <<>>

----------------------------------------------------------------------------
(* Execution sequence validator.  validation.py of this tree predates it: it
   is modelled from section 4.7 of the specification and from the calls the
   workflow and the tests make. *)

ControlPlaneOperation(order, operation_type, entity_index) ==
    [order |-> order, operation_type |-> operation_type, entity_index |-> entity_index]

ExecutionOperation(order, operation_type, entity_index, control_plane_order, packet_id) ==
    [order |-> order, operation_type |-> operation_type, entity_index |-> entity_index,
     control_plane_order |-> control_plane_order, packet_id |-> packet_id]

\* "every packet in packet_sequence must appear exactly once as a send_packet
\* step, and the set/order of send_packet steps must exactly match (by packet
\* id) the candidate packet sequence's order": the timeline is walked once,
\* each send_packet step consuming the next packet
RECURSIVE SendsMatch(_, _)
SendsMatch(timeline, packets) ==
    IF timeline = <<>> THEN packets = <<>>
    ELSE IF Head(timeline).operation_type # "send_packet" THEN SendsMatch(Tail(timeline), packets)
    ELSE /\ packets # <<>>
         /\ Head(timeline).packet_id = <<Head(packets).packet_id>>
         /\ SendsMatch(Tail(timeline), Tail(packets))

\* The same walk with the packets taken as a set
SendsCover(timeline, packets) ==
    {timeline[i].packet_id : i \in {j \in 1..Len(timeline) : timeline[j].operation_type = "send_packet"}}
        = {<<packets[i].packet_id>> : i \in 1..Len(packets)}

\* "every control-plane operation's order must appear in the execution
\* timeline in the same relative order it has in control_plane_sequence": each
\* control-plane step consumes the next operation
RECURSIVE ControlOpsMatch(_, _)
ControlOpsMatch(timeline, operations) ==
    IF timeline = <<>> THEN operations = <<>>
    ELSE IF Head(timeline).operation_type = "send_packet" THEN ControlOpsMatch(Tail(timeline), operations)
    ELSE /\ operations # <<>>
         /\ Head(timeline).control_plane_order = <<Head(operations).order>>
         /\ ControlOpsMatch(Tail(timeline), Tail(operations))

\* The same walk with the operations taken as a set
ControlOpsCover(timeline, operations) ==
    {timeline[i].control_plane_order :
        i \in {j \in 1..Len(timeline) : timeline[j].operation_type # "send_packet"}}
        = {<<operations[i].order>> : i \in 1..Len(operations)}

ValidateExecutionSequenceSendsAsSet(packets, rules, operations, timeline) ==
    IF ~SendsCover(timeline, packets) THEN
        Returned("FAIL", [kind |-> "send_packet_order_coverage_mismatch"])
    ELSE IF ~ControlOpsMatch(timeline, operations) THEN
        Returned("FAIL", [kind |-> "control_plane_order_mismatch"])
    ELSE Returned("PASS", [kind |-> "execution_sequence_valid"])

ValidateExecutionSequenceOpsAsSet(packets, rules, operations, timeline) ==
    IF ~SendsMatch(timeline, packets) THEN
        Returned("FAIL", [kind |-> "send_packet_order_coverage_mismatch"])
    ELSE IF ~ControlOpsCover(timeline, operations) THEN
        Returned("FAIL", [kind |-> "control_plane_order_mismatch"])
    ELSE Returned("PASS", [kind |-> "execution_sequence_valid"])

\* validate_execution_sequence: a send_packet mismatch is always reported as
\* such, so it is looked for first
ValidateExecutionSequence(packets, rules, operations, timeline) ==
    IF ~SendsMatch(timeline, packets) THEN
        Returned("FAIL", [kind |-> "send_packet_order_coverage_mismatch"])
    ELSE IF ~ControlOpsMatch(timeline, operations) THEN
        Returned("FAIL", [kind |-> "control_plane_order_mismatch"])
    ELSE Returned("PASS", [kind |-> "execution_sequence_valid"])

\* A call of validate_execution_sequence(packet_sequence, entities,
\* control_plane_sequence, execution_sequence)
CallValidateExecutionSequence ==
    /\ outcome' = ValidateExecutionSequence(packet_sequence, entities, control_plane_sequence,
                                            execution_sequence)
    /\ history' = [history EXCEPT !.validate_execution_sequence = outcome']
    /\ UNCHANGED <<inputs, walk>>

MaxTimeline == 4
MaxControlOps == 2
MaxSentPackets == 2

\* Control-plane sequences as the workflow hands them over: orders 1..n, an
\* apply_table_entry for each entity and then register reads
ControlPlaneSequences ==
    {[i \in 1..n |-> ControlPlaneOperation(i, IF i = 1 THEN "apply_table_entry" ELSE "read_register",
                                           IF i = 1 THEN <<1>> ELSE <<>>)] : n \in 0..MaxControlOps}

\* Steps of a timeline: a send of a packet (one more than the candidates
\* have), or a step for a control-plane operation
TimelineSteps ==
    {ExecutionOperation(0, "send_packet", <<>>, <<>>, <<id>>) : id \in 1..(MaxSentPackets + 1)}
    \cup {ExecutionOperation(0, IF order = 1 THEN "apply_table_entry" ELSE "read_register",
                             IF order = 1 THEN <<1>> ELSE <<>>, <<order>>, <<>>) :
             order \in 1..MaxControlOps}

\* order is the position in the timeline, as the workflow renumbers it
Ordered(steps) == [i \in 1..Len(steps) |-> [steps[i] EXCEPT !.order = i]]

InitExecution ==
    /\ ctx = Context
    /\ task = Task(RoleBindings, <<>>, FALSE)
    /\ packet_sequence \in {[i \in 1..n |-> Packet(i, "h1", <<"pos">>, TcpStack, EmptyDict)] :
                               n \in 0..MaxSentPackets}
    /\ entities = <<TableRule(Str_ipv4_lpm, Str_lpm,
                              DictOf(<<<<Str_hdr_ipv4_dstAddr, PyStr(Ip_10_0_3_3)>>>>),
                              Str_drop, EmptyDict, <<>>)>>
    /\ control_plane_sequence \in ControlPlaneSequences
    /\ execution_sequence \in {Ordered(steps) : steps \in SeqsUpTo(TimelineSteps, MaxTimeline)}
    /\ outcome = NotCalled
    /\ walk = Idle
    /\ history = NoHistory

NextExecution == CallValidateExecutionSequence

SpecExecution == InitExecution /\ [][NextExecution]_vars

\* Packet ids of the send_packet steps, in timeline order
SentIds ==
    LET sends == SelectSeq(execution_sequence, LAMBDA step : step.operation_type = "send_packet")
    IN  [i \in 1..Len(sends) |-> sends[i].packet_id[1]]

PacketIds == [i \in 1..Len(packet_sequence) |-> packet_sequence[i].packet_id]

ControlSteps == SelectSeq(execution_sequence, LAMBDA step : step.operation_type # "send_packet")

\* C3: validate_execution_sequence returns PASS only if the packet ids of the
\* send_packet steps, in timeline order, are the packet ids of packet_sequence
\* in order; otherwise it returns FAIL with the send_packet order/coverage
\* mismatch feedback, however many control-plane steps the timeline has.
C3_SendStepsMatchPacketSequence ==
    outcome # NotCalled =>
        /\ outcome.kind = "return"
        /\ outcome.status \in {"PASS", "FAIL"}
        /\ outcome.status = "PASS" => SentIds = PacketIds
        /\ SentIds # PacketIds =>
              /\ outcome.status = "FAIL"
              /\ outcome.feedback.kind = "send_packet_order_coverage_mismatch"

\* C3 witness: both control-plane operations are in the timeline and a packet
\* is sent twice; the call fails on the sends
C3_Witness ==
    /\ outcome.status = "FAIL"
    /\ outcome.feedback.kind = "send_packet_order_coverage_mismatch"
    /\ Len(ControlSteps) = 2
    /\ SentIds = <<1, 1>>
    /\ PacketIds = <<1, 2>>

\* Place in control_plane_sequence of the operation a step refers to, 0 if none
PlaceOf(step) ==
    IF \E i \in 1..Len(control_plane_sequence) :
          <<control_plane_sequence[i].order>> = step.control_plane_order
    THEN CHOOSE i \in 1..Len(control_plane_sequence) :
            <<control_plane_sequence[i].order>> = step.control_plane_order
    ELSE 0

RelativeOrderKept ==
    \A i, j \in 1..Len(ControlSteps) :
        i < j => PlaceOf(ControlSteps[i]) < PlaceOf(ControlSteps[j])

\* C10: validate_execution_sequence returns PASS only if the control-plane
\* steps of the timeline refer to operations in the order control_plane_sequence
\* gives them (a timeline that swaps two of them fails); where the send_packet
\* steps stand among them does not matter: a timeline whose control-plane steps
\* are the operations in order and whose sends are the packets in order passes.
C10_ControlPlaneOrderKept ==
    outcome # NotCalled =>
        /\ outcome.status = "PASS" => RelativeOrderKept
        /\ ~RelativeOrderKept => outcome.status = "FAIL"
        /\ ( /\ SentIds = PacketIds
             /\ Len(ControlSteps) = Len(control_plane_sequence)
             /\ \A i \in 1..Len(ControlSteps) : PlaceOf(ControlSteps[i]) = i ) =>
              outcome.status = "PASS"

\* C10 witness: a send between the two control-plane steps, and a PASS
C10_Witness ==
    /\ outcome.status = "PASS"
    /\ Len(execution_sequence) = 4
    /\ execution_sequence[1].control_plane_order = <<1>>
    /\ execution_sequence[2].operation_type = "send_packet"
    /\ execution_sequence[3].control_plane_order = <<2>>
    /\ execution_sequence[4].operation_type = "send_packet"

\* A timeline that swaps the two control-plane operations is rejected
C10_SwapRejected ==
    /\ outcome.status = "FAIL"
    /\ Len(ControlSteps) = 2
    /\ ControlSteps[1].control_plane_order = <<2>>
    /\ ControlSteps[2].control_plane_order = <<1>>
    /\ SentIds = PacketIds

----------------------------------------------------------------------------
(* Both validators of validation.py called in any order, any number of times,
   on a task, a packet sequence and entities that do not change *)

MaxTotalEntities == 1

TotalTasks ==
    {Task(RoleBindings,
          <<Contract("pos", "positive", TRUE, allow, <<PlainStep, PlainStep>>, relations)>>,
          FALSE) :
        allow \in BOOLEAN,
        relations \in {<<>>} \cup {<<Relation(2, "TCP.ack", op, 1, "TCP.seq", 0)>> : op \in CompareOps}}
    \cup {Task(<<>>, <<>>, FALSE)}

TotalPacketSequences ==
    {<<Packet(1, "h1", <<"pos">>, TcpStack, Fields(seq, None)),
       Packet(2, "h1", <<"pos">>, TcpStack, Fields(PyInt(5000), ack))>> :
        seq \in SeqValues, ack \in {PyInt(1001), PyStr(Str_0X3e9), None}}
    \cup PriorityPacketSequences

InitTotal ==
    /\ ctx = Context
    /\ task \in TotalTasks
    /\ packet_sequence \in TotalPacketSequences
    /\ entities \in SeqsUpTo(PriorityRules, MaxTotalEntities)
    /\ control_plane_sequence = <<>>
    /\ execution_sequence = <<>>
    /\ outcome = NotCalled
    /\ walk = Idle
    /\ history = NoHistory

NextTotal == CallValidatePacketSequenceContract \/ CallValidateControlPlaneEntities

SpecTotal == InitTotal /\ [][NextTotal]_vars

\* C6: a call of validate_packet_sequence_contract or of
\* validate_control_plane_entities returns a CriticResult whose status is PASS
\* or FAIL; it does not raise.
C6_ValidatorsAlwaysReturn ==
    outcome # NotCalled =>
        /\ outcome.kind = "return"
        /\ outcome.status \in {"PASS", "FAIL"}

\* What does hold: validate_control_plane_entities always returns, and
\* validate_packet_sequence_contract raises only when a relation reads a packet
\* field holding an int no float can hold
EntityValidatorAlwaysReturns ==
    history.validate_control_plane_entities # NotCalled =>
        /\ history.validate_control_plane_entities.kind = "return"
        /\ history.validate_control_plane_entities.status \in {"PASS", "FAIL"}

ContractValidatorRaisesOnlyOnOverflow ==
    history.validate_packet_sequence_contract.kind = "raise" =>
        /\ history.validate_packet_sequence_contract = Raised("OverflowError")
        /\ \E i \in 1..Len(packet_sequence) :
              \E f \in DOMAIN packet_sequence[i].fields : packet_sequence[i].fields[f] = BigInt

----------------------------------------------------------------------------
(* Control-flow graph: dot/dot_graph.py.  A graph holds its nodes in
   declaration order (the insertion order of the _nodes dict) and its edges in
   the order of the edge list; shape is an Optional[str]. *)

DotNode(node_id, label, shape) == [node_id |-> node_id, label |-> label, shape |-> shape]

DotEdge(src, dst, label) == [src |-> src, dst |-> dst, label |-> label]

DotGraph(nodes, edges) == [nodes |-> nodes, edges |-> edges]

\* get_node: the node, or nothing
GetNode(g, node_id) == SelectSeq(g.nodes, LAMBDA n : n.node_id = node_id)

FirstNodeId(hits) == IF hits = <<>> THEN <<>> ELSE <<hits[1].node_id>>

FindNodeIdByLabel(g, label) == FirstNodeId(SelectSeq(g.nodes, LAMBDA n : n.label = label))

OutEdges(g, node_id) == SelectSeq(g.edges, LAMBDA e : e.src = node_id)

Str_START == <<"_", "_", "S", "T", "A", "R", "T", "_", "_">>

GetStartNodeId(g) == FindNodeIdByLabel(g, Str_START)

\* What a call that has returned leaves
Finished(fn, result) == [op |-> "done", fn |-> fn, result |-> result]

CanCall == walk.op \in {"idle", "done"}

Top(frames) == frames[Len(frames)]

Pop(frames) == SubSeq(frames, 1, Len(frames) - 1)

Max(a, b) == IF a >= b THEN a ELSE b

----------------------------------------------------------------------------
(* ranked_tables: dfs is run one call, one loop iteration or one return at a
   time; frames is the call stack of dfs, a frame holding the node, the out
   edges the loop has not taken yet and best.  The recursion limit of the
   interpreter is not modelled: dfs nests no deeper than the graph has nodes,
   and the graphs here have few. *)

Str_ellipse == <<"e", "l", "l", "i", "p", "s", "e">>

MemoGet(memo, node_id) == IF node_id \in DOMAIN memo THEN memo[node_id] ELSE 0

MemoPut(memo, node_id, depth) ==
    [n \in DOMAIN memo \cup {node_id} |-> IF n = node_id THEN depth ELSE memo[n]]

DfsFrame(nid, edges, best) == [nid |-> nid, edges |-> edges, best |-> best]

RankedWalk(frames, memo, visiting) ==
    [op |-> "ranked_tables", frames |-> frames, memo |-> memo, visiting |-> visiting]

\* dfs answers without descending
DfsAnsweredMemoOnly(nid, memo, visiting) == nid \in DOMAIN memo

\* dfs answers without descending: the node is in memo, or it is being
\* visited (the cycle guard, which answers 0)
DfsAnswered(nid, memo, visiting) == nid \in DOMAIN memo \/ nid \in visiting

\* The edge to the answering node is not counted
TakeAnswerUncounted(frame, answer) == DfsFrame(frame.nid, Tail(frame.edges), Max(frame.best, answer))

\* The loop of the calling frame takes what dfs returned and goes on
TakeAnswer(frame, answer) ==
    DfsFrame(frame.nid, Tail(frame.edges), Max(frame.best, 1 + answer))

IsEllipse(node) == Lower(IF node.shape = <<>> THEN <<>> ELSE node.shape[1]) = Str_ellipse

TableDepths(tables, memo) ==
    [i \in 1..Len(tables) |-> [label |-> tables[i].label, depth |-> MemoGet(memo, tables[i].node_id)]]

\* The ranked list before it is sorted
Ranked(g, memo) == TableDepths(SelectSeq(g.nodes, IsEllipse), memo)

RECURSIVE InsertByDepthBeforeTies(_, _)
InsertByDepthBeforeTies(item, sorted) ==
    IF sorted = <<>> THEN <<item>>
    ELSE IF Head(sorted).depth > item.depth
         THEN <<Head(sorted)>> \o InsertByDepthBeforeTies(item, Tail(sorted))
         ELSE <<item>> \o sorted

\* list.sort(key=depth, reverse=True) is stable: an item goes behind the items
\* that are at least as deep
RECURSIVE InsertByDepth(_, _)
InsertByDepth(item, sorted) ==
    IF sorted = <<>> THEN <<item>>
    ELSE IF Head(sorted).depth >= item.depth
         THEN <<Head(sorted)>> \o InsertByDepth(item, Tail(sorted))
         ELSE <<item>> \o sorted

RECURSIVE SortByDepth(_)
SortByDepth(ranked) ==
    IF ranked = <<>> THEN <<>>
    ELSE InsertByDepth(ranked[Len(ranked)], SortByDepth(Pop(ranked)))

Returns(value) == [kind |-> "return", value |-> value]

\* Frames the model lets dfs stack up; dfs itself stacks no more than one
\* frame for each node
MaxFrames == 6

\* ranked_tables is called: without a start node it returns [], else dfs(start)
\* is entered
CallRankedTables ==
    /\ CanCall
    /\ IF GetStartNodeId(ctx.dot_graph) = <<>>
       THEN /\ walk' = Finished("ranked_tables", <<>>)
            /\ history' = [history EXCEPT !.ranked_tables = Returns(<<>>)]
       ELSE /\ walk' = RankedWalk(<<DfsFrame(GetStartNodeId(ctx.dot_graph)[1],
                                             OutEdges(ctx.dot_graph, GetStartNodeId(ctx.dot_graph)[1]),
                                             0)>>,
                                  EmptyDict, {GetStartNodeId(ctx.dot_graph)[1]})
            /\ UNCHANGED history
    /\ UNCHANGED <<inputs, outcome>>

\* dfs(e.dst) for the next out edge, the node neither in memo nor being visited
DfsDescend ==
    /\ walk.op = "ranked_tables"
    /\ walk.frames # <<>>
    /\ Top(walk.frames).edges # <<>>
    /\ ~DfsAnswered(Head(Top(walk.frames).edges).dst, walk.memo, walk.visiting)
    /\ Len(walk.frames) < MaxFrames
    /\ walk' = RankedWalk(Append(walk.frames,
                                 DfsFrame(Head(Top(walk.frames).edges).dst,
                                          OutEdges(ctx.dot_graph, Head(Top(walk.frames).edges).dst),
                                          0)),
                          walk.memo,
                          walk.visiting \cup {Head(Top(walk.frames).edges).dst})
    /\ UNCHANGED <<inputs, outcome, history>>

\* dfs(e.dst) for the next out edge returns at once: memo[e.dst], or 0 for a
\* node being visited
DfsReuse ==
    /\ walk.op = "ranked_tables"
    /\ walk.frames # <<>>
    /\ Top(walk.frames).edges # <<>>
    /\ DfsAnswered(Head(Top(walk.frames).edges).dst, walk.memo, walk.visiting)
    /\ walk' = RankedWalk(Append(Pop(walk.frames),
                                 TakeAnswer(Top(walk.frames),
                                            MemoGet(walk.memo, Head(Top(walk.frames).edges).dst))),
                          walk.memo, walk.visiting)
    /\ UNCHANGED <<inputs, outcome, history>>

\* The loop of the top frame is over: the node leaves visiting, memo gets its
\* best, and the caller's loop takes it
DfsReturn ==
    /\ walk.op = "ranked_tables"
    /\ walk.frames # <<>>
    /\ Top(walk.frames).edges = <<>>
    /\ walk' = RankedWalk(IF Len(walk.frames) = 1 THEN <<>>
                          ELSE Append(Pop(Pop(walk.frames)),
                                      TakeAnswer(Top(Pop(walk.frames)), Top(walk.frames).best)),
                          MemoPut(walk.memo, Top(walk.frames).nid, Top(walk.frames).best),
                          walk.visiting \ {Top(walk.frames).nid})
    /\ UNCHANGED <<inputs, outcome, history>>

\* dfs(start) has returned: the ellipse nodes are listed with their depths,
\* sorted and returned
RankedTablesReturn ==
    /\ walk.op = "ranked_tables"
    /\ walk.frames = <<>>
    /\ walk' = Finished("ranked_tables", SortByDepth(Ranked(ctx.dot_graph, walk.memo)))
    /\ history' = [history EXCEPT !.ranked_tables = Returns(walk'.result)]
    /\ UNCHANGED <<inputs, outcome>>

----------------------------------------------------------------------------
(* path_constraints: one action for each way an iteration of the while loop
   goes; the top of the stack is its last element *)

Str_isValid == <<"i", "s", "V", "a", "l", "i", "d">>
Str_eq_eq == <<"=", "=">>
Str_dot_hit == <<".", "h", "i", "t">>

PathEntry(nid, path, steps) == [nid |-> nid, path |-> path, steps |-> steps]

PathWalk(target_id, max_paths, max_steps, stack, results) ==
    [op |-> "path_constraints", target_id |-> target_id, max_paths |-> max_paths,
     max_steps |-> max_steps, stack |-> stack, results |-> results]

Reverse(seq) == [i \in 1..Len(seq) |-> seq[Len(seq) + 1 - i]]

NextEntry(g, e) == [node |-> GetNode(g, e.dst)[1].label, via |-> e.label]

Pushed(g, entry, edges) ==
    [i \in 1..Len(edges) |->
        PathEntry(edges[i].dst, Append(entry.path, NextEntry(g, edges[i])), entry.steps + 1)]

\* What the for loop over reversed(out_edges(nid)) pushes: an entry for each
\* edge whose dst is a node of the graph
Successors(g, entry) ==
    Pushed(g, entry, SelectSeq(Reverse(OutEdges(g, entry.nid)), LAMBDA e : GetNode(g, e.dst) # <<>>))

\* The iteration gives the entry up: too many steps, or no such node
Abandoned(g, entry, max_steps) == entry.steps > max_steps \/ GetNode(g, entry.nid) = <<>>

IsConstraint(ent) ==
    \/ IsSubstring(Str_isValid, ent.node)
    \/ IsSubstring(Str_eq_eq, ent.node)
    \/ IsSubstring(Str_dot_hit, ent.node)

Simplify(path) == SelectSeq(path, IsConstraint)

\* The raw first result whenever the filter leaves nothing of the first result
SimplifiedResultOfFirst(results) ==
    IF results = <<>> THEN <<>>
    ELSE IF Simplify(results[1]) = <<>> THEN results[1]
    ELSE Simplify(results[1])

\* The simplified view of the first result; the raw first result if the
\* filter leaves nothing of any result; [] without results
SimplifiedResult(results) ==
    IF results = <<>> THEN <<>>
    ELSE IF \A i \in 1..Len(results) : Simplify(results[i]) = <<>> THEN results[1]
    ELSE Simplify(results[1])

\* max_paths of the signature
DefaultMaxPaths == 3

\* Largest max_steps a call is given here (the signature's default is 200)
MaxStepLimit == 2

Str_ipv4_lpm_label == <<"i", "p", "v", "4", "_", "l", "p", "m">>
Str_isValid_label == <<"h", "d", "r", ".", "i", "p", "v", "4", ".", "i", "s", "V", "a", "l", "i", "d", "(", ")">>
Str_acl_label == <<"a", "c", "l", ".", "h", "i", "t">>
Str_no_such_label == <<"n", "o", "w", "h", "e", "r", "e">>

TargetLabels == {Str_ipv4_lpm_label, Str_acl_label, Str_no_such_label}

LabelOf(g, node_id) == GetNode(g, node_id)[1].label

\* path_constraints has returned; the arguments of the call are kept with the
\* result
FinishedPath(result, target_label, max_paths, max_steps) ==
    [op |-> "done", fn |-> "path_constraints", result |-> result,
     target_label |-> target_label, max_paths |-> max_paths, max_steps |-> max_steps]

\* path_constraints(target_label, max_paths, max_steps) is called: without a
\* start node or a node of that label it returns [], else the loop starts
\* with the start node on the stack
CallPathConstraints ==
    /\ CanCall
    /\ \E target_label \in TargetLabels, max_paths \in {1, DefaultMaxPaths},
          max_steps \in 0..MaxStepLimit :
          walk' = IF \/ GetStartNodeId(ctx.dot_graph) = <<>>
                     \/ FindNodeIdByLabel(ctx.dot_graph, target_label) = <<>>
                  THEN FinishedPath(<<>>, target_label, max_paths, max_steps)
                  ELSE PathWalk(FindNodeIdByLabel(ctx.dot_graph, target_label)[1],
                                max_paths, max_steps,
                                <<PathEntry(GetStartNodeId(ctx.dot_graph)[1], <<>>, 0)>>, <<>>)
    /\ UNCHANGED <<inputs, outcome, history>>

PathLoopRuns ==
    /\ walk.op = "path_constraints"
    /\ walk.stack # <<>>
    /\ Len(walk.results) < walk.max_paths

\* steps > max_steps, or the node is missing: continue
PathSkip ==
    /\ PathLoopRuns
    /\ Abandoned(ctx.dot_graph, Top(walk.stack), walk.max_steps)
    /\ walk' = [walk EXCEPT !.stack = Pop(walk.stack)]
    /\ UNCHANGED <<inputs, outcome, history>>

\* The target is reached: its path is a result
PathFound ==
    /\ PathLoopRuns
    /\ ~Abandoned(ctx.dot_graph, Top(walk.stack), walk.max_steps)
    /\ Top(walk.stack).nid = walk.target_id
    /\ walk' = [walk EXCEPT !.stack = Pop(walk.stack),
                            !.results = Append(walk.results, Top(walk.stack).path)]
    /\ UNCHANGED <<inputs, outcome, history>>

\* Any other node: its successors are pushed
PathExpand ==
    /\ PathLoopRuns
    /\ ~Abandoned(ctx.dot_graph, Top(walk.stack), walk.max_steps)
    /\ Top(walk.stack).nid # walk.target_id
    /\ walk' = [walk EXCEPT !.stack = Pop(walk.stack) \o Successors(ctx.dot_graph, Top(walk.stack))]
    /\ UNCHANGED <<inputs, outcome, history>>

\* The loop is over
PathConstraintsReturn ==
    /\ walk.op = "path_constraints"
    /\ ~PathLoopRuns
    /\ walk' = FinishedPath(SimplifiedResult(walk.results), LabelOf(ctx.dot_graph, walk.target_id),
                             walk.max_paths, walk.max_steps)
    /\ UNCHANGED <<inputs, outcome, history>>

----------------------------------------------------------------------------
(* get_parser_paths: tools/parser_tools.py.  ctx.parsers is the "parsers" list
   of the BMv2 JSON; parser_ops are held by their op and the value of their
   first parameter, a transition by its type and its next_state (nothing for
   null) *)

Parser(init_state, parse_states) == [init_state |-> init_state, parse_states |-> parse_states]

ParseState(name, parser_ops, transitions) ==
    [name |-> name, parser_ops |-> parser_ops, transitions |-> transitions]

ParserOp(op, value) == [op |-> op, value |-> value]

Transition(type, next_state) == [type |-> type, next_state |-> next_state]

\* state_by_name.get(state_name): a later state of the name replaces an earlier
LastOf(hits) == IF hits = <<>> THEN <<>> ELSE <<hits[Len(hits)]>>

StateByName(parser, state_name) ==
    LastOf(SelectSeq(parser.parse_states, LAMBDA st : st.name = state_name))

Values(ops) == [i \in 1..Len(ops) |-> ops[i].value[1]]

ExtractHeaders(st) ==
    Values(SelectSeq(st.parser_ops, LAMBDA op : op.op = "extract" /\ op.value # <<>>))

\* dfs stops descending beyond this depth
MaxParserDepth == 32

ParserFrame(stack2, transitions, progressed) ==
    [stack2 |-> stack2, transitions |-> transitions, progressed |-> progressed]

ParserWalk(frames, out_paths) == [op |-> "get_parser_paths", frames |-> frames, out_paths |-> out_paths]

\* dfs found the state: without transitions its stack is a path, else the loop
\* over its transitions starts
EnterState(st, stack, frames, out_paths) ==
    IF st.transitions = <<>> THEN ParserWalk(frames, Append(out_paths, stack \o ExtractHeaders(st)))
    ELSE ParserWalk(Append(frames, ParserFrame(stack \o ExtractHeaders(st), st.transitions, FALSE)),
                    out_paths)

\* dfs(state_name, stack, out_paths, depth) up to its loop; depth is the
\* number of frames below the call
ParserDfs(parser, state_name, stack, frames, out_paths) ==
    IF Len(frames) > MaxParserDepth THEN ParserWalk(frames, out_paths)
    ELSE IF StateByName(parser, state_name) = <<>> THEN ParserWalk(frames, out_paths)
    ELSE EnterState(StateByName(parser, state_name)[1], stack, frames, out_paths)

Str_ethernet == <<"e", "t", "h", "e", "r", "n", "e", "t">>
Str_Ethernet == <<"E", "t", "h", "e", "r", "n", "e", "t">>
Str_IPv4 == <<"I", "P", "v", "4">>
Str_udp == <<"u", "d", "p">>
Str_TCP == <<"T", "C", "P">>
Str_UDP == <<"U", "D", "P">>

DisplayName(inst) ==
    IF Lower(inst) = Str_ethernet THEN Str_Ethernet
    ELSE IF Lower(inst) = Str_ipv4 THEN Str_IPv4
    ELSE IF Lower(inst) = Str_tcp THEN Str_TCP
    ELSE IF Lower(inst) = Str_udp THEN Str_UDP
    ELSE inst

DisplayPath(path) == [i \in 1..Len(path) |-> DisplayName(path[i])]

NonEmpty(path) == path # <<>>

DisplayAll(paths) == [i \in 1..Len(paths) |-> DisplayPath(paths[i])]

DisplayPaths(raw_paths) == DisplayAll(SelectSeq(raw_paths, NonEmpty))

Seen(paths, path) == \E i \in 1..Len(paths) : paths[i] = path

RECURSIVE Uniq(_)
Uniq(paths) ==
    IF paths = <<>> THEN <<>>
    ELSE IF Seen(Pop(paths), Top(paths)) THEN Uniq(Pop(paths))
    ELSE Append(Uniq(Pop(paths)), Top(paths))

\* get_parser_paths is called: without a parser it returns [], else
\* dfs(init_state, [], raw_paths) is entered
CallGetParserPaths ==
    /\ CanCall
    /\ walk' = IF ctx.parsers = <<>> THEN Finished("get_parser_paths", <<>>)
               ELSE ParserDfs(ctx.parsers[1], ctx.parsers[1].init_state, <<>>, <<>>, <<>>)
    /\ UNCHANGED <<inputs, outcome, history>>

ParserLoopRuns ==
    /\ walk.op = "get_parser_paths"
    /\ walk.frames # <<>>
    /\ Top(walk.frames).transitions # <<>>

\* A default transition that names a state is followed
SkipsTransitionWithoutState(tr) == tr.next_state = <<>>

SkipsTransition(tr) == tr.type = "default" \/ tr.next_state = <<>>

\* A default transition, or one without next_state: continue
ParserSkipTransition ==
    /\ ParserLoopRuns
    /\ SkipsTransition(Head(Top(walk.frames).transitions))
    /\ walk' = ParserWalk(Append(Pop(walk.frames),
                                 [Top(walk.frames) EXCEPT !.transitions = Tail(@)]),
                          walk.out_paths)
    /\ UNCHANGED <<inputs, outcome, history>>

\* A transition to a state: progressed, and dfs(next_state, stack2, out_paths,
\* depth + 1)
ParserFollowTransition ==
    /\ ParserLoopRuns
    /\ ~SkipsTransition(Head(Top(walk.frames).transitions))
    /\ walk' = ParserDfs(ctx.parsers[1], Head(Top(walk.frames).transitions).next_state[1],
                         Top(walk.frames).stack2,
                         Append(Pop(walk.frames),
                                ParserFrame(Top(walk.frames).stack2,
                                            Tail(Top(walk.frames).transitions), TRUE)),
                         walk.out_paths)
    /\ UNCHANGED <<inputs, outcome, history>>

\* The loop over the transitions is over: a state that followed none is the
\* end of a path
ParserDfsReturn ==
    /\ walk.op = "get_parser_paths"
    /\ walk.frames # <<>>
    /\ Top(walk.frames).transitions = <<>>
    /\ walk' = ParserWalk(Pop(walk.frames),
                          IF Top(walk.frames).progressed THEN walk.out_paths
                          ELSE Append(walk.out_paths, Top(walk.frames).stack2))
    /\ UNCHANGED <<inputs, outcome, history>>

\* dfs(init_state) has returned: display names, empty paths dropped, duplicates
\* dropped
GetParserPathsReturn ==
    /\ walk.op = "get_parser_paths"
    /\ walk.frames = <<>>
    /\ walk' = Finished("get_parser_paths", Uniq(DisplayPaths(walk.out_paths)))
    /\ UNCHANGED <<inputs, outcome, history>>

----------------------------------------------------------------------------
(* The analyses called in any order, any number of times, on a control-flow
   graph or on a parser *)

MaxEdges == 3

Str_Ellipse_mixed == <<"E", "l", "l", "i", "p", "s", "e">>
Str_rectangle == <<"r", "e", "c", "t", "a", "n", "g", "l", "e">>

\* Declared start first with a condition between two tables; declared in the
\* opposite order and all of them ellipses; without a start node
NodeLists ==
    {<<DotNode("s", Str_START, <<>>),
       DotNode("a", Str_ipv4_lpm_label, <<Str_ellipse>>),
       DotNode("b", Str_isValid_label, <<Str_rectangle>>),
       DotNode("c", Str_acl_label, <<Str_Ellipse_mixed>>)>>,
     <<DotNode("c", Str_acl_label, <<Str_ellipse>>),
       DotNode("b", Str_isValid_label, <<Str_ellipse>>),
       DotNode("a", Str_ipv4_lpm_label, <<Str_ellipse>>),
       DotNode("s", Str_START, <<>>)>>,
     <<DotNode("a", Str_ipv4_lpm_label, <<Str_ellipse>>),
       DotNode("b", Str_isValid_label, <<>>)>>}

\* "ghost" is no node of any graph
EdgePool ==
    <<DotEdge("s", "a", ""), DotEdge("s", "b", ""), DotEdge("a", "b", "TRUE"),
      DotEdge("b", "a", "FALSE"), DotEdge("b", "b", ""), DotEdge("b", "c", "TRUE"),
      DotEdge("a", "ghost", "")>>

InPoolOrder(chosen) == SelectSeq(EdgePool, LAMBDA e : e \in chosen)

EdgeLists ==
    UNION {{InPoolOrder(chosen), Reverse(InPoolOrder(chosen))} :
              chosen \in {some \in SUBSET {EdgePool[i] : i \in 1..Len(EdgePool)} :
                             Cardinality(some) <= MaxEdges}}

Graphs == {DotGraph(nodes, edges) : nodes \in NodeLists, edges \in EdgeLists}

Str_myTunnel == <<"m", "y", "T", "u", "n", "n", "e", "l">>

ParserStateNames == {"start", "parse_ipv4", "parse_tcp"}

\* No transitions; only a default; a select with a case leading to a state (or
\* to a state the parser does not have) and a default; a case without
\* next_state; a default that names a state
TransitionLists ==
    {<<>>, <<Transition("default", <<>>)>>, <<Transition("hexstr", <<>>)>>,
     <<Transition("default", <<"parse_tcp">>)>>}
    \cup {<<Transition("hexstr", <<next_state>>), Transition("default", <<>>)>> :
             next_state \in ParserStateNames \cup {"missing"}}

\* start extracts ethernet, parse_ipv4 ipv4, parse_tcp a tunnel header and tcp
LinearParser(t_start, t_ipv4, t_tcp) ==
    Parser("start",
           <<ParseState("start", <<ParserOp("extract", <<Str_ethernet>>)>>, t_start),
             ParseState("parse_ipv4",
                        <<ParserOp("set", <<>>), ParserOp("extract", <<Str_ipv4>>)>>, t_ipv4),
             ParseState("parse_tcp",
                        <<ParserOp("extract", <<Str_myTunnel>>), ParserOp("extract", <<Str_tcp>>)>>,
                        t_tcp)>>)

\* start selects parse_ipv4 or parse_tcp, parse_ipv4 goes on to parse_tcp
BranchingParser ==
    LinearParser(<<Transition("hexstr", <<"parse_ipv4">>), Transition("hexstr", <<"parse_tcp">>),
                   Transition("default", <<>>)>>,
                 <<Transition("hexstr", <<"parse_tcp">>)>>,
                 <<>>)

\* start extracts nothing and goes on by its default transition
HeaderlessStartParser ==
    Parser("start",
           <<ParseState("start", <<>>, <<Transition("default", <<"parse_ipv4">>)>>),
             ParseState("parse_ipv4", <<ParserOp("extract", <<Str_ipv4>>)>>, <<>>)>>)

Parsers ==
    {LinearParser(t_start, t_ipv4, t_tcp) :
        t_start \in TransitionLists, t_ipv4 \in TransitionLists,
        t_tcp \in {<<>>, <<Transition("default", <<"parse_tcp">>)>>,
                   <<Transition("hexstr", <<"start">>), Transition("default", <<>>)>>}}
    \cup {BranchingParser, HeaderlessStartParser}

TraversalContexts ==
    {[Context EXCEPT !.dot_graph = g] : g \in Graphs}
    \cup {[Context EXCEPT !.parsers = <<parser>>] : parser \in Parsers}

InitTraversal ==
    /\ ctx \in TraversalContexts
    /\ task = Task(RoleBindings, <<>>, FALSE)
    /\ packet_sequence = <<>>
    /\ entities = <<>>
    /\ control_plane_sequence = <<>>
    /\ execution_sequence = <<>>
    /\ outcome = NotCalled
    /\ walk = Idle
    /\ history = NoHistory

\* A step of the call that is running
TraversalStep ==
    \/ DfsDescend \/ DfsReuse \/ DfsReturn \/ RankedTablesReturn
    \/ PathSkip \/ PathFound \/ PathExpand \/ PathConstraintsReturn
    \/ ParserSkipTransition \/ ParserFollowTransition \/ ParserDfsReturn \/ GetParserPathsReturn

NextTraversal == CallRankedTables \/ CallPathConstraints \/ CallGetParserPaths \/ TraversalStep

SpecTraversal == InitTraversal /\ [][NextTraversal]_vars

\* A call that has started goes on until it returns
SpecTraversalFair == SpecTraversal /\ WF_vars(TraversalStep)

RECURSIVE ReachFrom(_, _)
ReachFrom(g, nodes) ==
    IF {g.edges[i].dst : i \in {j \in 1..Len(g.edges) : g.edges[j].src \in nodes}} \subseteq nodes
    THEN nodes
    ELSE ReachFrom(g, nodes \cup {g.edges[i].dst :
                                     i \in {j \in 1..Len(g.edges) : g.edges[j].src \in nodes}})

OnCycle(g, n) ==
    n \in ReachFrom(g, {g.edges[i].dst : i \in {j \in 1..Len(g.edges) : g.edges[j].src = n}})

\* The graph has a cycle that can be reached from its start node
CycleFromStart(g) ==
    /\ GetStartNodeId(g) # <<>>
    /\ \E n \in ReachFrom(g, {GetStartNodeId(g)[1]}) : OnCycle(g, n)

\* C8: a call of ranked_tables, path_constraints or get_parser_paths that has
\* started returns, whatever cycles the graph or the parser has.
C8_TraversalsTerminate == (~CanCall) ~> (walk.op = "done")

\* C8 witness: ranked_tables has returned a list for a graph with a cycle that
\* can be reached from the start node
C8_Witness ==
    /\ walk.op = "done"
    /\ walk.fn = "ranked_tables"
    /\ CycleFromStart(ctx.dot_graph)
    /\ walk.result # <<>>

\* path_constraints has returned for such a graph, its target never reached
C8_PathWitness ==
    /\ walk.op = "done"
    /\ walk.fn = "path_constraints"
    /\ CycleFromStart(ctx.dot_graph)
    /\ FindNodeIdByLabel(ctx.dot_graph, Str_acl_label) # <<>>
    /\ walk.result = <<>>

\* get_parser_paths is at its depth limit, in a parser with a cycle
C8_ParserAtDepthLimit ==
    /\ walk.op = "get_parser_paths"
    /\ Len(walk.frames) = MaxParserDepth + 1

\* dfs never stacks more frames than the model lets it, and path_constraints
\* never holds an entry more than one step beyond max_steps
TraversalsWithinLimits ==
    /\ walk.op = "ranked_tables" => Len(walk.frames) < MaxFrames
    /\ walk.op = "path_constraints" =>
          \A i \in 1..Len(walk.stack) : walk.stack[i].steps <= walk.max_steps + 1
    /\ walk.op = "get_parser_paths" => Len(walk.frames) <= MaxParserDepth + 1

RankedDone == walk.op = "done" /\ walk.fn = "ranked_tables"

\* Labels are unique in a graph here: where the node of the label is declared
DeclaredAt(g, label) == CHOOSE i \in 1..Len(g.nodes) : g.nodes[i].label = label

EllipseLabels(g) == {g.nodes[i].label : i \in {j \in 1..Len(g.nodes) : IsEllipse(g.nodes[j])}}

RankedInOrder(g, ranked) ==
    /\ {ranked[i].label : i \in 1..Len(ranked)} \subseteq EllipseLabels(g)
    /\ GetStartNodeId(g) # <<>> =>
          /\ Len(ranked) = Cardinality(EllipseLabels(g))
          /\ {ranked[i].label : i \in 1..Len(ranked)} = EllipseLabels(g)
    /\ \A i, j \in 1..Len(ranked) :
          i < j =>
             /\ ranked[i].depth >= ranked[j].depth
             /\ ranked[i].depth = ranked[j].depth =>
                   DeclaredAt(g, ranked[i].label) < DeclaredAt(g, ranked[j].label)

\* C9: what ranked_tables returns is made of the ellipse nodes (all of them if
\* the graph has a start node), deeper ones first and equally deep ones in the
\* order of their declaration; and a call of ranked_tables returns what the
\* call before it returned.
C9_RankedOrderStable ==
    /\ [](RankedDone => RankedInOrder(ctx.dot_graph, walk.result))
    /\ [][(RankedDone' /\ history.ranked_tables # NotCalled) =>
             walk'.result = history.ranked_tables.value]_vars

\* C9 witness: three tables returned, the deepest declared last, the other two
\* equally deep
C9_Witness ==
    /\ RankedDone
    /\ Len(walk.result) = 3
    /\ walk.result[1].depth > walk.result[2].depth
    /\ walk.result[2].depth = walk.result[3].depth
    /\ DeclaredAt(ctx.dot_graph, walk.result[1].label) > DeclaredAt(ctx.dot_graph, walk.result[3].label)
    /\ history.ranked_tables = Returns(walk.result)

----------------------------------------------------------------------------
(* validate_control_plane_entities with a control_plane_sequence.  The
   validation.py of this tree has no such parameter; the workflow and the
   tests pass it.  The check of the sequence is modelled from section 4.6 of
   the specification, where it stands behind the coverage of the destinations
   and before the role bindings. *)

\* "order values themselves must be strictly increasing with no gaps relative
\* to declaration order"
OrdersFollowDeclaration(operations) ==
    \A i \in 1..Len(operations) : operations[i].order = i

\* "its entity_index references must appear in strictly increasing order"
EntityIndexesIncrease(indexed) ==
    \A i \in 1..(Len(indexed) - 1) : indexed[i].entity_index[1] < indexed[i + 1].entity_index[1]

CheckControlPlaneSequenceOrdersOnly(operations) ==
    IF ~OrdersFollowDeclaration(operations) THEN
        CheckFail([kind |-> "order_not_strictly_increasing"])
    ELSE CheckOk

CheckControlPlaneSequence(operations) ==
    IF ~OrdersFollowDeclaration(operations) THEN
        CheckFail([kind |-> "order_not_strictly_increasing"])
    ELSE IF ~EntityIndexesIncrease(SelectSeq(operations, LAMBDA op : op.entity_index # <<>>)) THEN
        CheckFail([kind |-> "entity_index_order"])
    ELSE CheckOk

\* The verdict on the entities decides if it is about the entities or the
\* destinations they cover; else the sequence is checked, and then the verdict
\* on the role bindings stands
WithSequenceCheck(plain, sequence_check) ==
    IF plain.status = "FAIL" /\ plain.feedback.kind \notin {"task_role_bindings_empty",
                                                            "role_hosts_not_in_topology"}
    THEN plain
    ELSE IF sequence_check.k # "none" THEN FromCheck(sequence_check)
    ELSE plain

ValidateControlPlaneEntitiesWithSequence(c, t, packets, rules, operations) ==
    IF operations = <<>> THEN ValidateControlPlaneEntities(c, t, packets, rules)
    ELSE WithSequenceCheck(ValidateControlPlaneEntities(c, t, packets, rules),
                           CheckControlPlaneSequence(operations))

\* A call of validate_control_plane_entities(ctx, task, packet_sequence,
\* entities, control_plane_sequence)
CallValidateControlPlaneEntitiesWithSequence ==
    /\ outcome' = ValidateControlPlaneEntitiesWithSequence(ctx, task, packet_sequence, entities,
                                                           control_plane_sequence)
    /\ history' = [history EXCEPT !.validate_control_plane_entities = outcome']
    /\ UNCHANGED <<inputs, walk>>

MaxSequenceOps == 2
MaxOrder == 3

Mac_value_h1 == PyStr(Mac_h1)

\* The two entities of the tests of the sequence
ForwardTo(ip, mac, port) ==
    TableRule(Str_ipv4_lpm, Str_lpm,
              DictOf(<<<<Str_hdr_ipv4_dstAddr, PyList(<<PyStr(ip), PyInt(32)>>)>>>>),
              Str_ipv4_forward, DictOf(<<<<Str_dstAddr, mac>>, <<Str_port, PyInt(port)>>>>), <<>>)

SequenceEntityLists ==
    {<<ForwardTo(Ip_10_0_3_3, Mac_value, 3), ForwardTo(Ip_10_0_1_1, Mac_value_h1, 1)>>,
     <<ForwardTo(Ip_10_0_3_3, Mac_value, 3)>>,
     <<ForwardTo(Ip_10_0_3_3, Mac_value, 3),
       TableRule(Str_unknown_table, Str_lpm, EmptyDict, Str_drop, EmptyDict, <<>>)>>}

\* An operation applies the entity it refers to, or reads a register
SequenceOperations ==
    {ControlPlaneOperation(order, IF entity_index = <<>> THEN "read_register" ELSE "apply_table_entry",
                           entity_index) :
        order \in 1..MaxOrder, entity_index \in {<<>>, <<1>>, <<2>>}}

InitSequence ==
    /\ ctx = Context
    /\ task \in {Task(RoleBindings, <<>>, FALSE), Task(<<>>, <<>>, FALSE)}
    /\ packet_sequence \in PriorityPacketSequences
    /\ entities \in SequenceEntityLists
    /\ control_plane_sequence \in SeqsUpTo(SequenceOperations, MaxSequenceOps)
    /\ execution_sequence = <<>>
    /\ outcome = NotCalled
    /\ walk = Idle
    /\ history = NoHistory

NextSequence == CallValidateControlPlaneEntitiesWithSequence

SpecSequence == InitSequence /\ [][NextSequence]_vars

OrdersStrictlyIncrease ==
    \A i \in 1..(Len(control_plane_sequence) - 1) :
        control_plane_sequence[i].order < control_plane_sequence[i + 1].order

\* An operation refers to an entity with a smaller index than an operation
\* before it
EntityIndexFallsBack ==
    \E i, j \in 1..Len(control_plane_sequence) :
        /\ i < j
        /\ control_plane_sequence[i].entity_index # <<>>
        /\ control_plane_sequence[j].entity_index # <<>>
        /\ control_plane_sequence[i].entity_index[1] > control_plane_sequence[j].entity_index[1]

EntityIndexesStrictlyIncrease ==
    \A i, j \in 1..Len(control_plane_sequence) :
        (/\ i < j
         /\ control_plane_sequence[i].entity_index # <<>>
         /\ control_plane_sequence[j].entity_index # <<>>) =>
            control_plane_sequence[i].entity_index[1] < control_plane_sequence[j].entity_index[1]

\* What the validator says of the entities without a sequence
PlainVerdict == ValidateControlPlaneEntities(ctx, task, packet_sequence, entities)

\* C11: given a control_plane_sequence, validate_control_plane_entities fails
\* if the order values do not strictly increase or an entity_index falls back;
\* for entities that pass without the sequence, the feedback is the one on
\* the orders, or else the one on the entity_index order; and operations
\* ordered 1..n with increasing entity_index leave such entities a PASS.
C11_SequenceOrderRequired ==
    (outcome # NotCalled /\ control_plane_sequence # <<>>) =>
        /\ (~OrdersStrictlyIncrease \/ EntityIndexFallsBack) => outcome.status = "FAIL"
        /\ PlainVerdict.status = "PASS" =>
              /\ ~OrdersStrictlyIncrease =>
                    outcome.feedback.kind = "order_not_strictly_increasing"
              /\ (OrdersFollowDeclaration(control_plane_sequence) /\ EntityIndexFallsBack) =>
                    outcome.feedback.kind = "entity_index_order"
              /\ (OrdersFollowDeclaration(control_plane_sequence) /\ EntityIndexesStrictlyIncrease) =>
                    outcome.status = "PASS"

\* C11 witness: the two entities of the test pass on their own, the sequence
\* applies entity 2 before entity 1, and the call fails on the entity_index
\* order
C11_Witness ==
    /\ outcome.status = "FAIL"
    /\ outcome.feedback.kind = "entity_index_order"
    /\ PlainVerdict.status = "PASS"
    /\ Len(control_plane_sequence) = 2
    /\ control_plane_sequence[1].entity_index = <<2>>
    /\ control_plane_sequence[2].entity_index = <<1>>

\* The other two cases of the tests: orders 1, 1 fail; orders 1, 2 on the
\* entities 1, 2 pass
C11_OrdersWitness ==
    /\ outcome.feedback.kind = "order_not_strictly_increasing"
    /\ PlainVerdict.status = "PASS"
    /\ Len(control_plane_sequence) = 2
    /\ control_plane_sequence[1].order = 1
    /\ control_plane_sequence[2].order = 1

C11_PassWitness ==
    /\ outcome.status = "PASS"
    /\ Len(control_plane_sequence) = 2
    /\ control_plane_sequence[1].entity_index = <<1>>
    /\ control_plane_sequence[2].entity_index = <<2>>

----------------------------------------------------------------------------
(* Claims about the scenarios a task requires *)

DeclaresRequired(kind) ==
    \E i \in 1..Len(task.sequence_contract) :
        /\ task.sequence_contract[i].required
        /\ task.sequence_contract[i].kind = kind

\* Some packet carries the tag of a declared scenario of the kind
CarriesKind(kind) ==
    \E i \in 1..Len(task.sequence_contract) :
        /\ task.sequence_contract[i].kind = kind
        /\ TaggedCount(task.sequence_contract[i].scenario) > 0

\* C12: under require_positive_and_negative, validate_packet_sequence_contract
\* returns PASS only if a required positive and a required negative scenario
\* are declared and the packets carry the tag of a positive and of a negative
\* scenario.
C12_PassNeedsBothKinds ==
    (outcome # NotCalled /\ outcome.status = "PASS" /\ task.require_positive_and_negative) =>
        /\ DeclaresRequired("positive")
        /\ DeclaresRequired("negative")
        /\ CarriesKind("positive")
        /\ CarriesKind("negative")

\* C12 witness: a PASS under require_positive_and_negative
C12_Witness ==
    /\ outcome.status = "PASS"
    /\ task.require_positive_and_negative
    /\ Len(packet_sequence) = 3

\* The negative scenario is declared but not required, its packets are there,
\* and the call fails for the missing required negative scenario
C12_NotRequiredWitness ==
    /\ outcome.status = "FAIL"
    /\ outcome.feedback.kind = "no_required_negative_scenario"
    /\ CarriesKind("negative")
    /\ CarriesKind("positive")

----------------------------------------------------------------------------
(* Scenarios with and without packets: a scenario named default takes the
   packets without a tag *)

MaxRequiredPackets == 2

RequiredContracts(scenario) ==
    {Contract(scenario, "positive", required, TRUE, [i \in 1..n |-> PlainStep], <<>>) :
        required \in BOOLEAN, n \in 0..1}

\* Two steps and the relation ack(step 2) = seq(step 1)
RelatedContract ==
    Contract("pos", "positive", TRUE, TRUE, <<PlainStep, PlainStep>>,
             <<Relation(2, "TCP.ack", "eq", 1, "TCP.seq", 0)>>)

RequiredContractLists ==
    {<<c>> : c \in RequiredContracts("default") \cup RequiredContracts("pos")}
    \cup {<<c1, c2>> : c1 \in RequiredContracts("pos") \cup {RelatedContract},
                       c2 \in RequiredContracts("default")}

\* Tagged pos, tagged with a scenario no contract declares, without a tag, and
\* with the empty tag; tagged pos with a sequence number within and beyond the
\* range of a float
RequiredPacketShapes ==
    {Packet(0, "h1", tag, TcpStack, EmptyDict) : tag \in {<<"pos">>, <<"other">>, <<>>, <<"">>}}
    \cup {Packet(0, "h1", <<"pos">>, TcpStack, Fields(seq, PyInt(1000))) : seq \in {PyInt(1000), BigInt}}

InitRequired ==
    /\ ctx = Context
    /\ task \in {Task(RoleBindings, contracts, FALSE) : contracts \in RequiredContractLists}
    /\ packet_sequence \in {Numbered(shapes) :
                               shapes \in SeqsUpTo(RequiredPacketShapes, MaxRequiredPackets)}
    /\ entities = <<>>
    /\ control_plane_sequence = <<>>
    /\ execution_sequence = <<>>
    /\ outcome = NotCalled
    /\ walk = Idle
    /\ history = NoHistory

NextRequired == CallValidatePacketSequenceContract

SpecRequired == InitRequired /\ [][NextRequired]_vars

\* The packets of a scenario: those that name it, and for default those that
\* name none
CarriesTag(packet, scenario) ==
    \/ packet.scenario = <<scenario>>
    \/ scenario = "default" /\ packet.scenario \in {<<>>, <<"">>}

HasPackets(scenario) ==
    \E i \in 1..Len(packet_sequence) : CarriesTag(packet_sequence[i], scenario)

MissesRequiredScenario ==
    \E i \in 1..Len(task.sequence_contract) :
        /\ task.sequence_contract[i].required
        /\ ~HasPackets(task.sequence_contract[i].scenario)

\* A scenario that is not required and has no packets is never what the
\* feedback is about
EmptyOptionalScenarioNotBlamed ==
    \A i \in 1..Len(task.sequence_contract) :
        (~task.sequence_contract[i].required /\ ~HasPackets(task.sequence_contract[i].scenario)) =>
            ("scenario" \in DOMAIN outcome.feedback =>
                outcome.feedback.scenario # task.sequence_contract[i].scenario)

\* C13: a required scenario none of whose packets is in the sequence makes
\* validate_packet_sequence_contract return FAIL; a scenario that is not
\* required and has no packets causes no failure by itself.
C13_RequiredScenarioNeedsPackets ==
    outcome # NotCalled =>
        /\ MissesRequiredScenario => outcome.status = "FAIL"
        /\ EmptyOptionalScenarioNotBlamed

SomeFieldIsBigInt ==
    \E i \in 1..Len(packet_sequence) :
        \E f \in DOMAIN packet_sequence[i].fields : packet_sequence[i].fields[f] = BigInt

\* With every packet field within the range of a float the statement of C13
\* holds, and beyond it the call still never passes
C13_HoldsWithinFloatRange ==
    outcome # NotCalled =>
        /\ (MissesRequiredScenario /\ ~SomeFieldIsBigInt) => outcome.status = "FAIL"
        /\ MissesRequiredScenario => outcome.status # "PASS"
        /\ EmptyOptionalScenarioNotBlamed

\* The required scenario default has no packet, neither untagged nor tagged
\* default, and the call fails for it
C13_MissingWitness ==
    /\ outcome.status = "FAIL"
    /\ outcome.feedback.kind = "missing_required_scenario"
    /\ outcome.feedback.scenario = "default"
    /\ packet_sequence # <<>>

\* Untagged packets are the packets of the required scenario default, a
\* scenario that is not required has none, and the call passes
C13_PassWitness ==
    /\ outcome.status = "PASS"
    /\ Len(task.sequence_contract) = 2
    /\ ~task.sequence_contract[1].required
    /\ ~HasPackets("pos")
    /\ task.sequence_contract[2].required
    /\ \A i \in 1..Len(packet_sequence) : packet_sequence[i].scenario \in {<<>>, <<"">>}

\* The relation of the first scenario holds and the required scenario after it
\* has no packet
C13_RelationThenMissingWitness ==
    /\ outcome.status = "FAIL"
    /\ outcome.feedback.kind = "missing_required_scenario"
    /\ task.sequence_contract[1] = RelatedContract

----------------------------------------------------------------------------
(* The sender of a step: steps of bound and unbound roles, packets sent by
   either host, and a scenario with a relation declared before *)

MaxSenderPackets == 3
MaxSenderSteps == 2

SenderBindings ==
    {RoleBindings, <<<<"initiator", "h1">>>>, <<<<"initiator", "h3">>, <<"responder", "h1">>>>}

SenderStepLists == UNION {[1..n -> {Step(role, <<>>, <<>>, <<>>) :
                                       role \in {"initiator", "responder", "observer"}}] :
                             n \in 1..MaxSenderSteps}

SenderContractLists ==
    {<<Contract("neg", "negative", FALSE, TRUE, steps, <<>>)>> : steps \in SenderStepLists}
    \cup {<<RelatedContract, Contract("neg", "negative", FALSE, TRUE, steps, <<>>)>> :
             steps \in SenderStepLists}

SenderPacketShapes ==
    {Packet(0, host, <<"neg">>, TcpStack, EmptyDict) : host \in {"h1", "h3"}}
    \cup {Packet(0, "h1", <<"pos">>, TcpStack, Fields(seq, PyInt(1000))) : seq \in {PyInt(1000), BigInt}}

InitSender ==
    /\ ctx = Context
    /\ task \in {Task(bindings, contracts, FALSE) :
                    bindings \in SenderBindings, contracts \in SenderContractLists}
    /\ packet_sequence \in {Numbered(shapes) :
                               shapes \in SeqsUpTo(SenderPacketShapes, MaxSenderPackets)}
    /\ entities = <<>>
    /\ control_plane_sequence = <<>>
    /\ execution_sequence = <<>>
    /\ outcome = NotCalled
    /\ walk = Idle
    /\ history = NoHistory

NextSender == CallValidatePacketSequenceContract

SpecSender == InitSender /\ [][NextSender]_vars

\* The place in the packet sequence of the i-th packet of a scenario: 0 if the
\* scenario has fewer packets
PlaceOfStepPacket(scenario, i) ==
    LET places == {k \in 1..Len(packet_sequence) :
                      /\ CarriesTag(packet_sequence[k], scenario)
                      /\ Cardinality({j \in 1..k : CarriesTag(packet_sequence[j], scenario)}) = i}
    IN  IF places = {} THEN 0 ELSE CHOOSE k \in places : TRUE

\* The i-th packet of the scenario was sent by the host bound to the role
SentByBound(scenario, i, role) ==
    \E b \in 1..Len(task.role_bindings) :
        /\ task.role_bindings[b][1] = role
        /\ packet_sequence[PlaceOfStepPacket(scenario, i)].tx_host = task.role_bindings[b][2]

\* Some step of a declared scenario has its packet and the packet was not sent
\* by the host bound to the role of the step
SomeStepHasWrongSender ==
    \E c \in 1..Len(task.sequence_contract) :
        \E i \in 1..Len(task.sequence_contract[c].steps) :
            /\ PlaceOfStepPacket(task.sequence_contract[c].scenario, i) # 0
            /\ ~SentByBound(task.sequence_contract[c].scenario, i,
                            task.sequence_contract[c].steps[i].tx_role)

\* C14: if the i-th packet of a declared scenario was not sent by the host
\* bound to the tx_role of step i, or the role is not bound,
\* validate_packet_sequence_contract returns FAIL; a PASS implies that every
\* step was sent by its bound host.
C14_WrongSenderFails ==
    outcome # NotCalled =>
        /\ SomeStepHasWrongSender => outcome.status = "FAIL"
        /\ outcome.status = "PASS" => ~SomeStepHasWrongSender

\* With every packet field within the range of a float the statement of C14
\* holds, and beyond it a wrong sender still never passes
C14_HoldsWithinFloatRange ==
    outcome # NotCalled =>
        /\ (SomeStepHasWrongSender /\ ~SomeFieldIsBigInt) => outcome.status = "FAIL"
        /\ outcome.status = "PASS" => ~SomeStepHasWrongSender

\* The second packet of the scenario was sent by a host other than the one
\* bound to the role of step 2
C14_WrongSenderWitness ==
    /\ outcome.status = "FAIL"
    /\ outcome.feedback.kind = "tx_host_mismatch"
    /\ outcome.feedback.step = 2

\* The role of a step has no binding
C14_UnboundRoleWitness ==
    /\ outcome.status = "FAIL"
    /\ outcome.feedback.kind = "unknown_tx_role"

\* Two steps of different roles, each sent by its bound host
C14_PassWitness ==
    /\ outcome.status = "PASS"
    /\ \E c \in 1..Len(task.sequence_contract) :
          /\ Len(task.sequence_contract[c].steps) = 2
          /\ task.sequence_contract[c].steps[1].tx_role # task.sequence_contract[c].steps[2].tx_role
          /\ PlaceOfStepPacket(task.sequence_contract[c].scenario, 2) # 0

----------------------------------------------------------------------------
(* Entity lists against the table and action schemas: unknown tables, actions
   a table does not allow, unfit match types, missing priorities, missing
   match keys and missing action parameters, alone and together *)

MaxEntityList == 2

Str_any_match == <<"a", "n", "y", "_", "m", "a", "t", "c", "h">>
Str_lpm_padded == <<" ", "L", "P", "M", " ">>

\* A table whose key list states no match type
EntityContext ==
    [Context EXCEPT !.tables_by_name =
        [name \in DOMAIN TablesByName \cup {Str_any_match} |->
            IF name = Str_any_match
            THEN PyDict(DictOf(<<<<"actions", PyList(<<PyStr(Str_drop)>>)>>, <<"key", PyList(<<>>)>>>>))
            ELSE TablesByName[name]]]

DstKey == DictOf(<<<<Str_hdr_ipv4_dstAddr, PyList(<<PyStr(Ip_10_0_3_3), PyInt(32)>>)>>>>)
DstPortKey == DictOf(<<<<Str_hdr_tcp_dstPort, PyList(<<PyInt(80), PyInt(90)>>)>>>>)

EntityRules ==
    {TableRule(table_name, match_type, match_keys, Str_ipv4_forward, action_data, <<>>) :
        table_name \in {Str_ipv4_lpm, Str_unknown_table},
        match_type \in {Str_lpm, Str_exact},
        match_keys \in {DstKey, EmptyDict},
        action_data \in {ForwardData, EmptyDict}}
    \cup {TableRule(Str_ipv4_lpm, Str_lpm_padded, DstKey, Str_drop, EmptyDict, <<>>),
          TableRule(Str_port_range, Str_range, DstPortKey, Str_ipv4_forward, ForwardData, <<1>>),
          TableRule(Str_port_range, Str_range, EmptyDict, Str_drop, EmptyDict, <<>>),
          TableRule(Str_port_range, Str_range, EmptyDict, Str_drop, EmptyDict, <<1>>),
          TableRule(Str_port_range, Str_range, DstPortKey, Str_drop, EmptyDict, <<1>>),
          TableRule(Str_any_match, Str_exact, EmptyDict, Str_drop, EmptyDict, <<>>),
          TableRule(Str_any_match, Str_exact, EmptyDict, Str_ipv4_forward, EmptyDict, <<>>)}

InitEntity ==
    /\ ctx = EntityContext
    /\ task = Task(RoleBindings, <<>>, FALSE)
    /\ packet_sequence = <<>>
    /\ entities \in SeqsUpTo(EntityRules, MaxEntityList)
    /\ control_plane_sequence = <<>>
    /\ execution_sequence = <<>>
    /\ outcome = NotCalled
    /\ walk = Idle
    /\ history = NoHistory

NextEntity == CallValidateControlPlaneEntities

SpecEntity == InitEntity /\ [][NextEntity]_vars

\* What the schemas of the context say about a rule
SchemaOf(rule) == ctx.tables_by_name[rule.table_name].d

NamesTable(rule) == rule.table_name \in DOMAIN ctx.tables_by_name

ActionAllowed(rule) ==
    \E i \in 1..Len(SchemaOf(rule)["actions"].l) :
        SchemaOf(rule)["actions"].l[i] = PyStr(rule.action_name)

StatedMatchTypes(rule) ==
    {SchemaOf(rule)["key"].l[i].d["match_type"].s : i \in 1..Len(SchemaOf(rule)["key"].l)}

\* Compared without regard to case and to blanks around the name
MatchTypeFits(rule) ==
    \/ StatedMatchTypes(rule) = {}
    \/ Lower(Strip(rule.match_type)) \in StatedMatchTypes(rule)

NeedsPriority(rule) ==
    /\ StatedMatchTypes(rule) \cap {Str_ternary, Str_range, Str_optional} # {}
    /\ rule.priority = <<>>

RequiredKeyFields(rule) ==
    {Str_hdr_dot \o SchemaOf(rule)["key"].l[i].d["target"].l[1].s \o <<".">>
        \o SchemaOf(rule)["key"].l[i].d["target"].l[2].s : i \in 1..Len(SchemaOf(rule)["key"].l)}

HasKeyFields(rule) == RequiredKeyFields(rule) \subseteq DOMAIN rule.match_keys

RequiredParams(rule) ==
    IF rule.action_name \notin DOMAIN ctx.actions_by_name THEN {}
    ELSE {ctx.actions_by_name[rule.action_name].d["runtime_data"].l[i].d["name"].s :
             i \in 1..Len(ctx.actions_by_name[rule.action_name].d["runtime_data"].l)}

HasParams(rule) == RequiredParams(rule) \subseteq DOMAIN rule.action_data

\* The checks the claim lists
Conforms(rule) ==
    /\ NamesTable(rule)
    /\ ActionAllowed(rule)
    /\ MatchTypeFits(rule)
    /\ HasKeyFields(rule)
    /\ HasParams(rule)

\* The first check a rule fails, in the order of section 4.6
FirstFailingCheck(rule) ==
    IF ~NamesTable(rule) THEN "unknown_table"
    ELSE IF ~ActionAllowed(rule) THEN "action_not_allowed"
    ELSE IF ~MatchTypeFits(rule) THEN "match_type_incompatible"
    ELSE IF NeedsPriority(rule) THEN "priority_required"
    ELSE IF ~HasKeyFields(rule) THEN "missing_match_keys"
    ELSE IF ~HasParams(rule) THEN "missing_action_params"
    ELSE "none"

Offending == {i \in 1..Len(entities) : FirstFailingCheck(entities[i]) # "none"}

LowestOffending == CHOOSE i \in Offending : \A j \in Offending : i <= j

\* C15: validate_control_plane_entities returns PASS only if the entity list
\* is not empty and every entity names an existing table, an action the table
\* allows, a match type the key schema states (if it states any), every
\* required match key and every required action parameter; otherwise the
\* feedback names the lowest-indexed offending entity and the first check it
\* fails.
C15_EntitiesMeetSchemas ==
    outcome # NotCalled =>
        /\ outcome.status = "PASS" =>
              /\ entities # <<>>
              /\ \A i \in 1..Len(entities) : Conforms(entities[i])
        /\ Offending # {} =>
              /\ outcome.status = "FAIL"
              /\ outcome.feedback.kind = FirstFailingCheck(entities[LowestOffending])
              /\ outcome.feedback.entity = LowestOffending

\* C15 witness: both entities offend, in different checks, and the feedback is
\* about the first
C15_Witness ==
    /\ outcome.status = "FAIL"
    /\ Cardinality(Offending) = 2
    /\ FirstFailingCheck(entities[1]) # FirstFailingCheck(entities[2])
    /\ outcome.feedback.entity = 1

\* The second entity is the only offending one and lacks an action parameter
C15_SecondEntityWitness ==
    /\ outcome.status = "FAIL"
    /\ Offending = {2}
    /\ outcome.feedback.kind = "missing_action_params"

\* A table whose key schema states no match type takes any match type
C15_PassWitness ==
    /\ outcome.status = "PASS"
    /\ Len(entities) = 2
    /\ \E i \in 1..2 : entities[i].table_name = Str_any_match
    /\ \E i \in 1..2 : entities[i].match_type = Str_lpm_padded

C15_EmptyListWitness ==
    /\ outcome.status = "FAIL"
    /\ outcome.feedback.kind = "empty_entities"

----------------------------------------------------------------------------
(* Field expectations: one required scenario of one step that expects a value
   of the field IPv4.proto, and one packet that carries the field or not *)

Str_6 == <<"6">>
Str_6_0 == <<"6", ".", "0">>
Str_6_padded == <<" ", "6", " ">>
Str_06 == <<"0", "6">>
Str_0x6 == <<"0", "x", "6">>
Str_0X06 == <<"0", "X", "0", "6">>
Str_6_5 == <<"6", ".", "5">>
Str_six == <<"s", "i", "x">>
Str_six_padded == <<" ", "s", "i", "x">>

LiteralValues ==
    {PyInt(6), PyInt(7), PyFloat(60), PyFloat(65), PyBool(TRUE), PyInt(1), None,
     PyStr(Str_6), PyStr(Str_6_0), PyStr(Str_6_padded), PyStr(Str_06), PyStr(Str_0x6),
     PyStr(Str_0X06), PyStr(Str_6_5), PyStr(Str_six), PyStr(Str_six_padded), PyStr(<<>>)}

ExpectedValues == LiteralValues

\* The packet carries the value, or does not carry the field
ActualFields == {[f \in {"IPv4.proto"} |-> v] : v \in LiteralValues \ {None}} \cup {EmptyDict}

ExpectingTask(expected) ==
    Task(RoleBindings,
         <<Contract("pos", "positive", TRUE, FALSE,
                    <<Step("initiator", <<>>, <<>>, <<<<"IPv4.proto", expected>>>>)>>, <<>>)>>,
         FALSE)

InitExpectation ==
    /\ ctx = Context
    /\ task \in {ExpectingTask(expected) : expected \in ExpectedValues}
    /\ packet_sequence \in {<<Packet(1, "h1", <<"pos">>, TcpStack, fields)>> : fields \in ActualFields}
    /\ entities = <<>>
    /\ control_plane_sequence = <<>>
    /\ execution_sequence = <<>>
    /\ outcome = NotCalled
    /\ walk = Idle
    /\ history = NoHistory

NextExpectation == CallValidatePacketSequenceContract

SpecExpectation == InitExpectation /\ [][NextExpectation]_vars

Expected == task.sequence_contract[1].steps[1].field_expectations[1][2]

Actual ==
    IF "IPv4.proto" \in DOMAIN packet_sequence[1].fields
    THEN packet_sequence[1].fields["IPv4.proto"]
    ELSE None

\* What the values of LiteralValues read as: a number in tenths, a text, or
\* nothing
Reading(v) ==
    IF v \in {PyInt(6), PyFloat(60), PyStr(Str_6), PyStr(Str_6_0), PyStr(Str_6_padded),
              PyStr(Str_06), PyStr(Str_0x6), PyStr(Str_0X06)} THEN <<"number", 60>>
    ELSE IF v \in {PyFloat(65), PyStr(Str_6_5)} THEN <<"number", 65>>
    ELSE IF v = PyInt(7) THEN <<"number", 70>>
    ELSE IF v \in {PyBool(TRUE), PyInt(1)} THEN <<"number", 10>>
    ELSE IF v \in {PyStr(Str_six), PyStr(Str_six_padded)} THEN <<"text", Str_six>>
    ELSE IF v = PyStr(<<>>) THEN <<"text", <<>>>>
    ELSE <<"none", 0>>

\* Written as an integer or as a float
WrittenAsFloat(v) == v \in {PyFloat(60), PyFloat(65), PyStr(Str_6_0), PyStr(Str_6_5)}

Matched == outcome.status = "PASS"

\* C16: a literal expectation is compared after numeric-looking strings are
\* read as numbers: "6", "0x6" and "6.0" all match 6, "6.5" does not; a value
\* that reads as an integer and one that reads as a float match when they are
\* the same number.
C16_LiteralsCompareAsNumbers ==
    outcome # NotCalled => (Matched <=> Reading(Actual) = Reading(Expected))

\* C16 as stated: "6" and hex strings match 6 and "6.0" does not match 6
C16_IntegerFloatDistinct ==
    outcome # NotCalled =>
        /\ (Reading(Actual) = Reading(Expected) /\ WrittenAsFloat(Actual) = WrittenAsFloat(Expected))
              => Matched
        /\ ({Actual, Expected} = {PyStr(Str_6_0), PyInt(6)}) => ~Matched

\* C16 witness: the packet carries "6.0", the step expects 6, and the call
\* passes
C16_Witness ==
    /\ Matched
    /\ Actual = PyStr(Str_6_0)
    /\ Expected = PyInt(6)

C16_HexWitness ==
    /\ Matched
    /\ Actual = PyStr(Str_0X06)
    /\ Expected = PyInt(6)

C16_FractionWitness ==
    /\ outcome.status = "FAIL"
    /\ outcome.feedback.kind = "field_expectation"
    /\ Actual = PyStr(Str_6_5)
    /\ Expected = PyInt(6)

----------------------------------------------------------------------------
(* Structured expectations: objects with any of the keys equals, eq, contains,
   not_contains, one_of and a key the validator does not know *)

Str_SYN == <<"S", "Y", "N">>
Str_ACK == <<"A", "C", "K">>
Str_FIN == <<"F", "I", "N">>
Str_SYN_ACK == <<"S", "Y", "N", "|", "A", "C", "K">>
Str_pattern == <<"S", ".", "*">>

Opt(values) == {<<>>} \cup {<<v>> : v \in values}

Entry(key, opt) == IF opt = <<>> THEN <<>> ELSE <<<<key, opt[1]>>>>

StructuredExpectation(equals, eq, contains, not_contains, one_of, matches) ==
    PyDict(DictOf(Entry("equals", equals) \o Entry("eq", eq) \o Entry("contains", contains)
                  \o Entry("not_contains", not_contains) \o Entry("one_of", one_of)
                  \o Entry("matches", matches)))

StructuredExpectations ==
    {StructuredExpectation(equals, eq, contains, not_contains, one_of, matches) :
        equals \in Opt({PyInt(6), PyStr(Str_SYN)}),
        eq \in Opt({PyStr(Str_6_0)}),
        contains \in Opt({PyStr(Str_SYN), PyList(<<PyStr(Str_SYN), PyStr(Str_ACK)>>), PyList(<<>>)}),
        not_contains \in Opt({PyStr(Str_ACK), PyStr(Str_FIN), PyList(<<PyStr(Str_ACK), PyStr(Str_FIN)>>)}),
        one_of \in Opt({PyList(<<PyStr(Str_6), PyStr(Str_SYN_ACK)>>), PyList(<<>>)}),
        matches \in Opt({PyStr(Str_pattern)})}

StructuredActualFields ==
    {[f \in {"IPv4.proto"} |-> v] :
        v \in {PyStr(Str_SYN), PyStr(Str_SYN_ACK), PyStr(Str_6), PyInt(6), PyStr(Str_FIN)}}
    \cup {EmptyDict}

InitStructured ==
    /\ ctx = Context
    /\ task \in {ExpectingTask(expected) : expected \in StructuredExpectations}
    /\ packet_sequence \in {<<Packet(1, "h1", <<"pos">>, TcpStack, fields)>> :
                               fields \in StructuredActualFields}
    /\ entities = <<>>
    /\ control_plane_sequence = <<>>
    /\ execution_sequence = <<>>
    /\ outcome = NotCalled
    /\ walk = Idle
    /\ history = NoHistory

NextStructured == CallValidatePacketSequenceContract

SpecStructured == InitStructured /\ [][NextStructured]_vars

\* What the values of this domain read as
StructuredReading(v) ==
    IF v \in {PyInt(6), PyStr(Str_6), PyStr(Str_6_0)} THEN <<"number", 60>>
    ELSE IF IsStr(v) THEN <<"text", v.s>>
    ELSE <<"none", 0>>

Needles(v) == IF IsStr(v) THEN {v.s} ELSE {v.l[i].s : i \in 1..Len(v.l)}

Occurs(needle) == IsStr(Actual) /\ IsSubstring(needle, Actual.s)

\* Whether the key of the expected object holds of the actual value
KeyHolds(key) ==
    LET value == Expected.d[key]
    IN  CASE key \in {"equals", "eq"} -> StructuredReading(Actual) = StructuredReading(value)
          [] key = "contains" -> IsStr(Actual) /\ \A needle \in Needles(value) : Occurs(needle)
          [] key = "not_contains" -> IsStr(Actual) /\ \A needle \in Needles(value) : ~Occurs(needle)
          [] key = "one_of" ->
                \E i \in 1..Len(value.l) : StructuredReading(Actual) = StructuredReading(value.l[i])
          [] OTHER -> TRUE

RecognizedKeys == {"equals", "eq", "contains", "not_contains", "one_of"}

\* C17: a structured expectation matches exactly when every recognized key it
\* has holds; other keys are ignored, so an object without a recognized key
\* matches every actual value and a missing field.
C17_EveryPresentKeyHolds ==
    outcome # NotCalled =>
        (Matched <=> \A key \in DOMAIN Expected.d \cap RecognizedKeys : KeyHolds(key))

\* C17 witness: the object has only a key the validator does not know, the
\* packet lacks the field, and the call passes
C17_Witness ==
    /\ Matched
    /\ DOMAIN Expected.d = {"matches"}
    /\ packet_sequence[1].fields = EmptyDict

\* Three keys hold together: both listed substrings occur, the substring that
\* must not occur does not, and the value is one of the candidates
C17_ConjunctionWitness ==
    /\ Matched
    /\ {"contains", "not_contains", "one_of"} \subseteq DOMAIN Expected.d
    /\ Expected.d["contains"].t = "list"
    /\ Expected.d["contains"].l # <<>>

\* One key holds and another does not
C17_OneKeyFailsWitness ==
    /\ outcome.status = "FAIL"
    /\ outcome.feedback.kind = "field_expectation"
    /\ \E held \in DOMAIN Expected.d \cap RecognizedKeys : KeyHolds(held)
    /\ \E failed \in DOMAIN Expected.d \cap RecognizedKeys : ~KeyHolds(failed)

----------------------------------------------------------------------------
(* The topology indexes and the zone of a host *)

\* The part before the last occurrence of sep
PrefixBeforeLast(chars, sep) ==
    LET starts == {i \in 1..(Len(chars) - Len(sep) + 1) : SubSeq(chars, i, i + Len(sep) - 1) = sep}
    IN  IF starts = {} THEN chars
        ELSE SubSeq(chars, 1, (CHOOSE i \in starts : \A j \in starts : j <= i) - 1)

\* str.split(sep, 1)[0]: the part before the first occurrence of sep, or the
\* whole string if sep does not occur
PrefixBefore(chars, sep) ==
    LET starts == {i \in 1..(Len(chars) - Len(sep) + 1) : SubSeq(chars, i, i + Len(sep) - 1) = sep}
    IN  IF starts = {} THEN chars
        ELSE SubSeq(chars, 1, (CHOOSE i \in starts : \A j \in starts : i <= j) - 1)

Str_port_mark == <<"-", "p">>

\* One link of _build_topology_indexes: a pair of a host, whose name starts
\* with h, and an endpoint with a port gives the host its switch
WithLink(host_to_switch, link) ==
    IF Len(link) # 2 THEN host_to_switch
    ELSE IF StartsWith(link[1], <<"h">>) /\ IsSubstring(Str_port_mark, link[2]) THEN
        [h \in DOMAIN host_to_switch \cup {link[1]} |->
            IF h = link[1] THEN PrefixBefore(link[2], Str_port_mark) ELSE host_to_switch[h]]
    ELSE IF StartsWith(link[2], <<"h">>) /\ IsSubstring(Str_port_mark, link[1]) THEN
        [h \in DOMAIN host_to_switch \cup {link[2]} |->
            IF h = link[2] THEN PrefixBefore(link[1], Str_port_mark) ELSE host_to_switch[h]]
    ELSE host_to_switch

RECURSIVE BuildHostToSwitch(_, _, _)
BuildHostToSwitch(links, at, host_to_switch) ==
    IF at > Len(links) THEN host_to_switch
    ELSE BuildHostToSwitch(links, at + 1, WithLink(host_to_switch, links[at]))

\* host_connected_switch: None for a host without entry and for an empty
\* switch id
HostConnectedSwitch(host_id, host_to_switch) ==
    IF host_id \in DOMAIN host_to_switch /\ host_to_switch[host_id] # <<>>
    THEN <<host_to_switch[host_id]>>
    ELSE <<>>

ClassifyHostZone(host_id, host_to_switch) ==
    LET sw == HostConnectedSwitch(host_id, host_to_switch)
    IN  IF sw = <<<<"s", "1">>>> THEN "internal"
        ELSE IF sw = <<<<"s", "2">>>> THEN "external"
        ELSE "unknown"

\* The tool classify_host_zone on the loaded context
CallClassifyHostZone ==
    /\ CanCall
    /\ "host_to_switch" \in DOMAIN ctx
    /\ \E host_id \in {<<"h", "1">>, <<"h", "3">>, <<"h", "9">>} :
          walk' = Finished("classify_host_zone",
                           [host_id |-> host_id,
                            zone |-> ClassifyHostZone(host_id, ctx.host_to_switch),
                            evidence |-> IF host_id \in DOMAIN ctx.host_to_switch
                                         THEN <<ctx.host_to_switch[host_id]>> ELSE <<>>])
    /\ UNCHANGED <<inputs, outcome, history>>

MaxLinks == 2

Str_h1 == <<"h", "1">>
Str_h3 == <<"h", "3">>
Str_s1_p1 == <<"s", "1", "-", "p", "1">>
Str_s2_p2 == <<"s", "2", "-", "p", "2">>
Str_s3_p1 == <<"s", "3", "-", "p", "1">>
Str_s1_p1_p2 == <<"s", "1", "-", "p", "1", "-", "p", "2">>
Str_s10_p1 == <<"s", "1", "0", "-", "p", "1">>
Str_S1_p1 == <<"S", "1", "-", "p", "1">>
Str_no_switch_p1 == <<"-", "p", "1">>
Str_s1_no_port == <<"s", "1">>

PortEndpoints ==
    {Str_s1_p1, Str_s2_p2, Str_s3_p1, Str_s1_p1_p2, Str_s10_p1, Str_S1_p1, Str_no_switch_p1}

\* Host links in both directions, a host linked to an endpoint without port, a
\* link between switches and a link with three endpoints
LinkPool ==
    {<<host, endpoint>> : host \in {Str_h1, Str_h3}, endpoint \in PortEndpoints \cup {Str_s1_no_port}}
    \cup {<<endpoint, host>> : host \in {Str_h1, Str_h3}, endpoint \in PortEndpoints}
    \cup {<<Str_s1_p1, Str_s2_p2>>, <<Str_h1, Str_s1_p1, Str_s2_p2>>}

\* initialize_program_context: the context with the topology and its indexes
LoadedContext(links) ==
    [host_info |-> HostInfo, tables_by_name |-> TablesByName, actions_by_name |-> ActionsByName,
     dot_graph |-> NoGraph, parsers |-> NoParser,
     topology |-> [links |-> links],
     host_to_switch |-> BuildHostToSwitch(links, 1, EmptyDict)]

InitZone ==
    /\ ctx \in {LoadedContext(links) : links \in SeqsUpTo(LinkPool, MaxLinks)}
    /\ task = Task(RoleBindings, <<>>, FALSE)
    /\ packet_sequence = <<>>
    /\ entities = <<>>
    /\ control_plane_sequence = <<>>
    /\ execution_sequence = <<>>
    /\ outcome = NotCalled
    /\ walk = Idle
    /\ history = NoHistory

NextZone == CallClassifyHostZone

SpecZone == InitZone /\ [][NextZone]_vars

\* The switch id an endpoint of the topology names
SwitchIdOf(endpoint) ==
    IF endpoint \in {Str_s1_p1, Str_s1_p1_p2} THEN "s1"
    ELSE IF endpoint = Str_s2_p2 THEN "s2"
    ELSE "other"

ZoneOfSwitch(switch_id) ==
    IF switch_id = "s1" THEN "internal"
    ELSE IF switch_id = "s2" THEN "external"
    ELSE "unknown"

\* The switch-port endpoints the links of the topology join the host with
EndpointsOf(host_id) ==
    {ctx.topology.links[i][2] : i \in {j \in 1..Len(ctx.topology.links) :
        /\ Len(ctx.topology.links[j]) = 2
        /\ ctx.topology.links[j][1] = host_id
        /\ ctx.topology.links[j][2] \in PortEndpoints}}
    \cup {ctx.topology.links[i][1] : i \in {j \in 1..Len(ctx.topology.links) :
        /\ Len(ctx.topology.links[j]) = 2
        /\ ctx.topology.links[j][2] = host_id
        /\ ctx.topology.links[j][1] \in PortEndpoints}}

Classified == walk.op = "done" /\ walk.fn = "classify_host_zone"

\* C18: classify_host_zone answers internal for a host whose link ends at a
\* port of switch s1, external for s2 and unknown for any other switch and for
\* a host without link; the switch id is what stands before -p in the
\* endpoint.
C18_ZoneFollowsSwitch ==
    Classified =>
        IF EndpointsOf(walk.result.host_id) = {} THEN walk.result.zone = "unknown"
        ELSE walk.result.zone \in
                {ZoneOfSwitch(SwitchIdOf(endpoint)) : endpoint \in EndpointsOf(walk.result.host_id)}

\* C18 witness: the switch comes first in the link, the port has a second -p,
\* and the host is internal
C18_Witness ==
    /\ Classified
    /\ walk.result.zone = "internal"
    /\ EndpointsOf(walk.result.host_id) = {Str_s1_p1_p2}
    /\ ctx.topology.links[1][1] = Str_s1_p1_p2

C18_ExternalWitness ==
    /\ Classified
    /\ walk.result.zone = "external"
    /\ walk.result.host_id = Str_h3

\* Linked to switch s10, whose name starts with s1
C18_OtherSwitchWitness ==
    /\ Classified
    /\ walk.result.zone = "unknown"
    /\ EndpointsOf(walk.result.host_id) = {Str_s10_p1}

\* A host the topology does not link
C18_AbsentHostWitness ==
    /\ Classified
    /\ walk.result.zone = "unknown"
    /\ walk.result.host_id \notin DOMAIN ctx.host_to_switch
    /\ Len(ctx.topology.links) = 2

----------------------------------------------------------------------------
(* The order of the checks: packets of known and unknown hosts, bound and
   unbound roles, scenarios of either kind under either name, required or
   not *)

MaxOrderPackets == 2

OrderBindings == {RoleBindings, <<>>, <<<<"initiator", "h9">>>>}

OrderContracts ==
    {Contract(named[1], named[2], required, FALSE, [i \in 1..n |-> PlainStep], <<>>) :
        named \in {<<"pos", "positive">>, <<"neg", "negative">>, <<"pos", "negative">>},
        required \in BOOLEAN, n \in 1..MaxOrderPackets}

OrderContractLists ==
    {<<>>} \cup {<<c>> : c \in OrderContracts}
    \cup {<<c1, c2>> : c1 \in OrderContracts, c2 \in OrderContracts}

OrderPacketShapes ==
    {Packet(0, "h1", <<"pos">>, TcpStack, EmptyDict), Packet(0, "h1", <<"neg">>, TcpStack, EmptyDict),
     Packet(0, "h9", <<"pos">>, TcpStack, EmptyDict)}

InitOrder ==
    /\ ctx = Context
    /\ task \in {Task(bindings, contracts, flag) :
                    bindings \in OrderBindings, contracts \in OrderContractLists, flag \in BOOLEAN}
    /\ packet_sequence \in {Numbered(shapes) :
                               shapes \in SeqsUpTo(OrderPacketShapes, MaxOrderPackets)}
    /\ entities = <<>>
    /\ control_plane_sequence = <<>>
    /\ execution_sequence = <<>>
    /\ outcome = NotCalled
    /\ walk = Idle
    /\ history = NoHistory

NextOrder == CallValidatePacketSequenceContract

SpecOrder == InitOrder /\ [][NextOrder]_vars

\* The checks of section 4.5, each on its own
SomeSenderUnknown ==
    \E i \in 1..Len(packet_sequence) : packet_sequence[i].tx_host \notin {"h1", "h3"}

BindingsFail ==
    \/ task.role_bindings = <<>>
    \/ \E i \in 1..Len(task.role_bindings) : task.role_bindings[i][2] \notin {"h1", "h3"}

DeclarationFails ==
    \/ task.sequence_contract = <<>>
    \/ /\ task.require_positive_and_negative
       /\ ~(DeclaresRequired("positive") /\ DeclaresRequired("negative"))

NumberTagged(scenario) ==
    Cardinality({i \in 1..Len(packet_sequence) : packet_sequence[i].scenario = <<scenario>>})

\* In this domain every step is sent by h1 in the role initiator and expects
\* nothing else, so a scenario fails by its number of packets only
ScenarioFails(contract) ==
    IF NumberTagged(contract.scenario) = 0 THEN contract.required
    ELSE NumberTagged(contract.scenario) # Len(contract.steps)

FailingScenarios == {i \in 1..Len(task.sequence_contract) : ScenarioFails(task.sequence_contract[i])}

\* The kind the validator takes a tag for: that of the last contract of the
\* name
PresentKind(kind) ==
    \E p \in 1..Len(packet_sequence) :
        \E i \in 1..Len(task.sequence_contract) :
            /\ <<task.sequence_contract[i].scenario>> = packet_sequence[p].scenario
            /\ task.sequence_contract[i].kind = kind
            /\ \A j \in (i + 1)..Len(task.sequence_contract) :
                  task.sequence_contract[j].scenario # task.sequence_contract[i].scenario

PresenceFails ==
    task.require_positive_and_negative /\ ~(PresentKind("positive") /\ PresentKind("negative"))

\* The check a feedback belongs to: 0 for the empty packet sequence, 1 to 4 as
\* section 4.5 numbers them, 5 for the presence of both kinds, 6 for PASS
CheckOfFeedback ==
    CASE outcome.feedback.kind = "empty_packet_sequence" -> 0
      [] outcome.feedback.kind = "tx_host_not_in_topology" -> 1
      [] outcome.feedback.kind \in {"empty_role_bindings", "role_binding_unknown_host"} -> 2
      [] outcome.feedback.kind \in {"empty_sequence_contract", "no_required_positive_scenario",
                                    "no_required_negative_scenario"} -> 3
      [] outcome.feedback.kind = "missing_positive_or_negative_packets" -> 5
      [] outcome.feedback.kind = "packet_sequence_satisfies_contract" -> 6
      [] OTHER -> 4

FirstFailingOfListed ==
    IF SomeSenderUnknown THEN 1
    ELSE IF BindingsFail THEN 2
    ELSE IF DeclarationFails THEN 3
    ELSE IF FailingScenarios # {} THEN 4
    ELSE IF PresenceFails THEN 5
    ELSE 6

FirstFailing == IF packet_sequence = <<>> THEN 0 ELSE FirstFailingOfListed

\* A feedback about a scenario is about the first scenario that fails
AboutFirstFailingScenario ==
    CheckOfFeedback = 4 =>
        outcome.feedback.scenario =
            task.sequence_contract[CHOOSE i \in FailingScenarios :
                                      \A j \in FailingScenarios : i <= j].scenario

\* C19: validate_packet_sequence_contract first rejects an empty packet
\* sequence and then applies the checks in the order of section 4.5; the
\* feedback is that of the first check that fails, and it passes when none
\* fails.
C19_FirstFailingCheckReported ==
    outcome # NotCalled =>
        /\ CheckOfFeedback = FirstFailing
        /\ AboutFirstFailingScenario
        /\ outcome.status = (IF FirstFailing = 6 THEN "PASS" ELSE "FAIL")

\* C19 as stated: the checks 1 to 5 are all there is
C19_ListedChecksOnly ==
    outcome # NotCalled =>
        /\ CheckOfFeedback = FirstFailingOfListed
        /\ outcome.status = (IF FirstFailingOfListed = 6 THEN "PASS" ELSE "FAIL")

\* C19 witness: the packet sequence is empty, every listed check passes, and
\* the call fails
C19_Witness ==
    /\ outcome.status = "FAIL"
    /\ packet_sequence = <<>>
    /\ FirstFailingOfListed = 6

\* A sender is unknown, a role is bound to an unknown host and a required
\* scenario is missing: the feedback is about the sender
C19_SenderFirstWitness ==
    /\ outcome.status = "FAIL"
    /\ CheckOfFeedback = 1
    /\ BindingsFail
    /\ DeclarationFails
    /\ FailingScenarios # {}

\* Both scenarios fail and the feedback is about the first
C19_ScenarioOrderWitness ==
    /\ outcome.status = "FAIL"
    /\ CheckOfFeedback = 4
    /\ FailingScenarios = {1, 2}
    /\ task.sequence_contract[1].scenario # task.sequence_contract[2].scenario
    /\ outcome.feedback.scenario = task.sequence_contract[1].scenario

\* Every scenario passes and the packets of one kind are missing, since both
\* contracts have the same name
C19_PresenceWitness ==
    /\ outcome.status = "FAIL"
    /\ CheckOfFeedback = 5

----------------------------------------------------------------------------
(* Relations and the declared steps: one required scenario with one relation
   whose steps may lie beyond the declared steps and beyond the packets *)

MaxRangeSteps == 2
MaxRangePackets == 3

RangeTasks ==
    {Task(RoleBindings,
          <<Contract("pos", "positive", TRUE, allow, [i \in 1..n |-> PlainStep],
                     <<Relation(left_step, "TCP.ack", "eq", right_step, "TCP.seq", 0)>>)>>,
          FALSE) :
        allow \in BOOLEAN, n \in 1..MaxRangeSteps,
        left_step \in 1..(MaxRangeSteps + 1), right_step \in 1..(MaxRangeSteps + 1)}

RangePacketShapes ==
    {Packet(0, "h1", <<"pos">>, TcpStack, fields) :
        fields \in {Fields(PyInt(1000), PyInt(1000)), Fields(PyInt(1000), None), EmptyDict}}

InitRange ==
    /\ ctx = Context
    /\ task \in RangeTasks
    /\ packet_sequence \in {Numbered(shapes) :
                               shapes \in SeqsUpTo(RangePacketShapes, MaxRangePackets) \ {<<>>}}
    /\ entities = <<>>
    /\ control_plane_sequence = <<>>
    /\ execution_sequence = <<>>
    /\ outcome = NotCalled
    /\ walk = Idle
    /\ history = NoHistory

NextRange == CallValidatePacketSequenceContract

SpecRange == InitRange /\ [][NextRange]_vars

RangeContract == task.sequence_contract[1]

FurthestStep ==
    Max(RangeContract.field_relations[1].left_step, RangeContract.field_relations[1].right_step)

BeyondDeclaredSteps == FurthestStep > Len(RangeContract.steps)

BeyondPackets == FurthestStep > Len(packet_sequence)

\* C20: a scenario whose relation references a step beyond the declared
\* steps is rejected, also when it allows additional packets and carries
\* them: validate_packet_sequence_contract does not pass it.
C20_RelationsStayWithinSteps ==
    (outcome # NotCalled /\ BeyondDeclaredSteps) => outcome.status = "FAIL"

\* What the code bounds the steps of a relation by is the number of packets of
\* the scenario: a step beyond the packets is rejected, and a call that passes
\* has evaluated the relation within the packets
C20_RelationsStayWithinPackets ==
    outcome # NotCalled =>
        /\ BeyondPackets => outcome.status = "FAIL"
        /\ (outcome.status = "FAIL" /\ outcome.feedback.kind = "relation_out_of_range") => BeyondPackets

\* The scenario allows additional packets and carries one, the relation reads
\* the additional packet, and the call passes
C20_BeyondStepsPasses ==
    /\ outcome.status = "PASS"
    /\ BeyondDeclaredSteps
    /\ RangeContract.allow_additional_packets
    /\ Len(packet_sequence) > Len(RangeContract.steps)

\* A step beyond the packets is rejected as out of range
C20_OutOfRangeWitness ==
    /\ outcome.status = "FAIL"
    /\ outcome.feedback.kind = "relation_out_of_range"
    /\ Len(packet_sequence) = Len(RangeContract.steps)

----------------------------------------------------------------------------
(* The receiver of a step: a step that names an rx_role, hosts with and
   without a usable address, packets with destination addresses in several
   notations, and a scenario with a relation declared before *)

Str_10_0_3_3_slash_24 == <<"1", "0", ".", "0", ".", "3", ".", "3", "/", "2", "4">>
Str_10_0_9_9_slash_24 == <<"1", "0", ".", "0", ".", "9", ".", "9", "/", "2", "4">>
Str_not_an_address == <<"1", "0", ".", "0", ".", "3">>
Mac_h3_upper == <<"0", "8", ":", "0", "3", ":", "3", "A">>
Mac_h3_lower == <<"0", "8", ":", "0", "3", ":", "3", "a">>
Mac_other == <<"0", "8", ":", "0", "9", ":", "9", "9">>

ReceiverHostInfo(ip, mac) ==
    [h \in {"h1", "h3"} |->
        IF h = "h1" THEN HostInfo["h1"]
        ELSE [f \in {"ip", "mac"} |-> IF f = "ip" THEN ip ELSE mac]]

\* The responder's host with a plain address, with an address with suffix,
\* and with neither a usable address nor a MAC
ReceiverContexts ==
    {[Context EXCEPT !.host_info = ReceiverHostInfo(known[1], known[2])] :
        known \in {<<PyStr(Ip_10_0_3_3), PyStr(Mac_h3_lower)>>,
                   <<PyStr(Str_10_0_3_3_slash_24), PyStr(Mac_h3_upper)>>,
                   <<PyStr(Str_not_an_address), None>>}}

ReceiverDsts ==
    {PyStr(Ip_10_0_3_3), PyStr(Str_10_0_3_3_slash_24), PyStr(Str_10_0_3_3_padded),
     PyStr(Ip_10_0_9_9), PyStr(Str_10_0_9_9_slash_24), PyStr(Str_not_an_address), PyInt(5), None}

ReceiverMacs == {PyStr(Mac_h3_lower), PyStr(Mac_h3_upper), PyStr(Mac_other), PyInt(5), None}

ReceiverFields(dst, mac) ==
    [f \in {g \in {"IPv4.dst", "Ethernet.dst"} :
               (g = "IPv4.dst" /\ dst # None) \/ (g = "Ethernet.dst" /\ mac # None)} |->
        IF f = "IPv4.dst" THEN dst ELSE mac]

ReceiverContract(rx_role) ==
    Contract("neg", "negative", TRUE, FALSE, <<Step("initiator", rx_role, <<>>, <<>>)>>, <<>>)

ReceiverRoles == {<<"responder">>, <<"observer">>, <<"">>, <<>>}

ReceiverTasks ==
    {Task(RoleBindings, <<ReceiverContract(rx_role)>>, FALSE) : rx_role \in ReceiverRoles}
    \cup {Task(RoleBindings, <<RelatedContract, ReceiverContract(rx_role)>>, FALSE) :
             rx_role \in ReceiverRoles}

\* No packet, or the two packets of the scenario with the relation
ReceiverEarlierPackets ==
    {<<>>}
    \cup {<<Packet(0, "h1", <<"pos">>, TcpStack, Fields(seq, PyInt(1000))),
            Packet(0, "h1", <<"pos">>, TcpStack, Fields(PyInt(1000), PyInt(1000)))>> :
             seq \in {PyInt(1000), BigInt}}

InitReceiver ==
    /\ ctx \in ReceiverContexts
    /\ task \in ReceiverTasks
    /\ packet_sequence \in
          {Numbered(earlier \o <<Packet(0, "h1", <<"neg">>, TcpStack, ReceiverFields(dst, mac))>>) :
              earlier \in ReceiverEarlierPackets, dst \in ReceiverDsts, mac \in ReceiverMacs}
    /\ entities = <<>>
    /\ control_plane_sequence = <<>>
    /\ execution_sequence = <<>>
    /\ outcome = NotCalled
    /\ walk = Idle
    /\ history = NoHistory

NextReceiver == CallValidatePacketSequenceContract

SpecReceiver == InitReceiver /\ [][NextReceiver]_vars

\* The address a value of this domain resolves to, if any
ResolvedAddress(v) ==
    IF v \in {PyStr(Ip_10_0_3_3), PyStr(Str_10_0_3_3_slash_24), PyStr(Str_10_0_3_3_padded)}
    THEN "10.0.3.3"
    ELSE IF v \in {PyStr(Ip_10_0_9_9), PyStr(Str_10_0_9_9_slash_24)} THEN "10.0.9.9"
    ELSE "none"

\* The MAC a value of this domain is, case aside
MacOf(v) ==
    IF v \in {PyStr(Mac_h3_lower), PyStr(Mac_h3_upper)} THEN "h3"
    ELSE IF v = PyStr(Mac_other) THEN "other"
    ELSE "none"

ReceiverStep == task.sequence_contract[Len(task.sequence_contract)].steps[1]

ReceiverPacket == packet_sequence[Len(packet_sequence)]

FieldOf(packet, field) == IF field \in DOMAIN packet.fields THEN packet.fields[field] ELSE None

DeclaresRxRole == ReceiverStep.rx_role \notin {<<>>, <<"">>}

RxRoleBound == ReceiverStep.rx_role = <<"responder">>

AddressesDiffer ==
    /\ ResolvedAddress(ctx.host_info["h3"]["ip"]) # "none"
    /\ ResolvedAddress(FieldOf(ReceiverPacket, "IPv4.dst")) # "none"
    /\ ResolvedAddress(ctx.host_info["h3"]["ip"]) # ResolvedAddress(FieldOf(ReceiverPacket, "IPv4.dst"))

MacsDiffer ==
    /\ MacOf(ctx.host_info["h3"]["mac"]) # "none"
    /\ MacOf(FieldOf(ReceiverPacket, "Ethernet.dst")) # "none"
    /\ MacOf(ctx.host_info["h3"]["mac"]) # MacOf(FieldOf(ReceiverPacket, "Ethernet.dst"))

ReceiverMustFail == DeclaresRxRole /\ (~RxRoleBound \/ AddressesDiffer \/ MacsDiffer)

\* A comparison that is skipped or agrees is not what the feedback is about
ReceiverNotBlamed ==
    /\ ~(DeclaresRxRole /\ RxRoleBound /\ AddressesDiffer) => outcome.feedback.kind # "ipv4_dst_mismatch"
    /\ ~(DeclaresRxRole /\ RxRoleBound /\ MacsDiffer) => outcome.feedback.kind # "ethernet_dst_mismatch"
    /\ ~(DeclaresRxRole /\ ~RxRoleBound) => outcome.feedback.kind # "unknown_rx_role"

\* C21: for a step with an rx_role, validate_packet_sequence_contract returns
\* FAIL when the role has no binding, when the address of the bound host and
\* IPv4.dst both resolve and differ, and when the MAC of the host and
\* Ethernet.dst are both strings and differ, case aside; a comparison with a
\* side that does not resolve rejects nothing.
C21_ReceiverMustMatch ==
    outcome # NotCalled =>
        /\ ReceiverMustFail => outcome.status = "FAIL"
        /\ ReceiverNotBlamed

\* With every packet field within the range of a float the statement of C21
\* holds, and beyond it a wrong receiver still never passes
C21_HoldsWithinFloatRange ==
    outcome # NotCalled =>
        /\ (ReceiverMustFail /\ ~SomeFieldIsBigInt) => outcome.status = "FAIL"
        /\ ReceiverMustFail => outcome.status # "PASS"
        /\ ReceiverNotBlamed
        /\ (~ReceiverMustFail /\ Len(packet_sequence) = 2 * Len(task.sequence_contract) - 1
            /\ ~SomeFieldIsBigInt) => outcome.status = "PASS"

\* The host's address has a suffix, the packet's another, and they differ
C21_AddressWitness ==
    /\ outcome.status = "FAIL"
    /\ outcome.feedback.kind = "ipv4_dst_mismatch"
    /\ ctx.host_info["h3"]["ip"] = PyStr(Str_10_0_3_3_slash_24)
    /\ FieldOf(ReceiverPacket, "IPv4.dst") = PyStr(Str_10_0_9_9_slash_24)

C21_MacWitness ==
    /\ outcome.status = "FAIL"
    /\ outcome.feedback.kind = "ethernet_dst_mismatch"

C21_UnboundWitness ==
    /\ outcome.status = "FAIL"
    /\ outcome.feedback.kind = "unknown_rx_role"

\* The packet's address does not resolve, its MAC differs from the host's in
\* case only, and the call passes
C21_SkippedWitness ==
    /\ outcome.status = "PASS"
    /\ DeclaresRxRole
    /\ FieldOf(ReceiverPacket, "IPv4.dst") = PyStr(Str_not_an_address)
    /\ FieldOf(ReceiverPacket, "Ethernet.dst") = PyStr(Mac_h3_lower)
    /\ ctx.host_info["h3"]["mac"] = PyStr(Mac_h3_upper)

----------------------------------------------------------------------------
(* The depths of ranked_tables on graphs without cycles *)

Acyclic(g) == \A i \in 1..Len(g.edges) : ~OnCycle(g, g.edges[i].src)

SetMax(numbers) == CHOOSE n \in numbers : \A m \in numbers : m <= n

\* The number of edges of the longest path from the node to a node without
\* outgoing edges
RECURSIVE LongestToSink(_, _)
LongestToSink(g, n) ==
    IF \A i \in 1..Len(g.edges) : g.edges[i].src # n THEN 0
    ELSE SetMax({1 + LongestToSink(g, g.edges[i].dst) :
                    i \in {j \in 1..Len(g.edges) : g.edges[j].src = n}})

\* The number of edges of the longest path from the start node to the node,
\* which the start node reaches
RECURSIVE LongestFromStart(_, _, _)
LongestFromStart(g, start, n) ==
    LET before == {i \in 1..Len(g.edges) :
                      g.edges[i].dst = n /\ g.edges[i].src \in ReachFrom(g, {start})}
    IN  IF before = {} THEN 0
        ELSE SetMax({1 + LongestFromStart(g, start, g.edges[i].src) : i \in before})

NodeOfLabel(g, label) == g.nodes[DeclaredAt(g, label)].node_id

ReachableTables(g, ranked) ==
    {i \in 1..Len(ranked) : NodeOfLabel(g, ranked[i].label) \in ReachFrom(g, {GetStartNodeId(g)[1]})}

RankedOnAcyclic == RankedDone /\ Acyclic(ctx.dot_graph) /\ GetStartNodeId(ctx.dot_graph) # <<>>

\* C22: on a graph without cycles the depth ranked_tables reports for a table
\* node the start node reaches is the number of edges of the longest path
\* from the start node to it.
C22_DepthIsDistanceFromStart ==
    RankedOnAcyclic =>
        \A i \in ReachableTables(ctx.dot_graph, walk.result) :
            walk.result[i].depth =
                LongestFromStart(ctx.dot_graph, GetStartNodeId(ctx.dot_graph)[1],
                                 NodeOfLabel(ctx.dot_graph, walk.result[i].label))

\* A table right behind the start node, without outgoing edges, is reported
\* with depth 0
C22_SinkTableWitness ==
    /\ RankedOnAcyclic
    /\ \E i \in ReachableTables(ctx.dot_graph, walk.result) :
          /\ walk.result[i].depth = 0
          /\ LongestFromStart(ctx.dot_graph, GetStartNodeId(ctx.dot_graph)[1],
                              NodeOfLabel(ctx.dot_graph, walk.result[i].label)) = 1

C30_UnreachableWitness ==
    /\ RankedOnAcyclic
    /\ \E i \in 1..Len(walk.result) :
          /\ i \notin ReachableTables(ctx.dot_graph, walk.result)
          /\ LongestToSink(ctx.dot_graph, NodeOfLabel(ctx.dot_graph, walk.result[i].label)) > 0
          /\ walk.result[i].depth = 0

----------------------------------------------------------------------------
(* The result of path_constraints and the paths of the graph *)

RECURSIVE Flatten(_)
Flatten(lists) == IF lists = <<>> THEN <<>> ELSE Head(lists) \o Flatten(Tail(lists))

EdgesToNodes(g, nid) == SelectSeq(OutEdges(g, nid), LAMBDA e : GetNode(g, e.dst) # <<>>)

\* Every path of at most steps_left edges from the node to the target, in
\* the order of a depth-first search that tries the edges as they are declared
RECURSIVE PathsTo(_, _, _, _)
PathsTo(g, nid, target_id, steps_left) ==
    IF nid = target_id THEN << <<>> >>
    ELSE IF steps_left = 0 THEN <<>>
    ELSE Flatten([i \in 1..Len(EdgesToNodes(g, nid)) |->
            [k \in 1..Len(PathsTo(g, EdgesToNodes(g, nid)[i].dst, target_id, steps_left - 1)) |->
                <<NextEntry(g, EdgesToNodes(g, nid)[i])>>
                \o PathsTo(g, EdgesToNodes(g, nid)[i].dst, target_id, steps_left - 1)[k]]])

PathDone == walk.op = "done" /\ walk.fn = "path_constraints"

\* The paths from the start node to the node of the label the call was given
CalledPaths ==
    IF \/ GetStartNodeId(ctx.dot_graph) = <<>>
       \/ FindNodeIdByLabel(ctx.dot_graph, walk.target_label) = <<>>
    THEN <<>>
    ELSE PathsTo(ctx.dot_graph, GetStartNodeId(ctx.dot_graph)[1],
                 FindNodeIdByLabel(ctx.dot_graph, walk.target_label)[1], walk.max_steps)

Collected(paths, max_paths) == SubSeq(paths, 1, IF Len(paths) < max_paths THEN Len(paths) ELSE max_paths)

\* C23: path_constraints returns [] without a start node, a node of the
\* target label or a path to the target within max_steps edges; otherwise it
\* returns the entries of the first path of the depth-first search whose
\* label holds 'isValid', '==' or '.hit', and the raw first path whenever
\* that filter leaves nothing.
C23_FirstPathOrItsConstraints ==
    PathDone =>
        walk.result = IF CalledPaths = <<>> THEN <<>>
                      ELSE IF Simplify(CalledPaths[1]) = <<>> THEN CalledPaths[1]
                      ELSE Simplify(CalledPaths[1])

\* C23 as the code has it: the raw first path is returned when the filter
\* leaves nothing of any collected path (the first max_paths paths of the
\* search); when it leaves nothing of the first path and something of a later
\* collected one, the result is [].
C23_RawPathWhenNoPathHasConstraints ==
    PathDone =>
        walk.result =
            IF CalledPaths = <<>> THEN <<>>
            ELSE IF \A i \in 1..Len(Collected(CalledPaths, walk.max_paths)) :
                        Simplify(CalledPaths[i]) = <<>>
                 THEN CalledPaths[1]
                 ELSE Simplify(CalledPaths[1])

\* C23 witness: the first path is not the first in the edge list's order of
\* targets, has a constraint entry and another entry, and the constraint
\* entries are returned
C23_Witness ==
    /\ PathDone
    /\ Len(CalledPaths) >= 2
    /\ walk.result # <<>>
    /\ walk.result = Simplify(CalledPaths[1])
    /\ walk.result # CalledPaths[1]

\* The raw first path is returned, no collected path having a constraint
C23_RawPathWitness ==
    /\ PathDone
    /\ CalledPaths # <<>>
    /\ walk.result # <<>>
    /\ walk.result = CalledPaths[1]
    /\ Simplify(CalledPaths[1]) = <<>>

\* [] is returned although the first path has entries: a later collected
\* path has a constraint
C23_LaterPathWitness ==
    /\ PathDone
    /\ CalledPaths # <<>>
    /\ CalledPaths[1] # <<>>
    /\ walk.result = <<>>

\* A path exists but needs more than max_steps edges
C23_TooFarWitness ==
    /\ PathDone
    /\ CalledPaths = <<>>
    /\ GetStartNodeId(ctx.dot_graph) # <<>>
    /\ FindNodeIdByLabel(ctx.dot_graph, walk.target_label) # <<>>
    /\ FindNodeIdByLabel(ctx.dot_graph, walk.target_label)[1]
          \in ReachFrom(ctx.dot_graph, {GetStartNodeId(ctx.dot_graph)[1]})

----------------------------------------------------------------------------
(* The stacks of get_parser_paths and the chains of the parser *)

\* The states the transitions of the state lead on to: those of the
\* transitions that are not the default and have a next state
FollowedStates(st) ==
    {st.transitions[i].next_state[1] :
        i \in {j \in 1..Len(st.transitions) :
                  st.transitions[j].type # "default" /\ st.transitions[j].next_state # <<>>}}

\* The header stacks of the chains of at most steps_left transitions from the
\* state to an accepting state
RECURSIVE AcceptedStacks(_, _, _)
AcceptedStacks(parser, state_name, steps_left) ==
    IF StateByName(parser, state_name) = <<>> THEN {}
    ELSE IF FollowedStates(StateByName(parser, state_name)[1]) = {}
         THEN {ExtractHeaders(StateByName(parser, state_name)[1])}
    ELSE IF steps_left = 0 THEN {}
    ELSE {ExtractHeaders(StateByName(parser, state_name)[1]) \o rest :
             rest \in UNION {AcceptedStacks(parser, next, steps_left - 1) :
                                next \in FollowedStates(StateByName(parser, state_name)[1])}}

ParserDone == walk.op = "done" /\ walk.fn = "get_parser_paths"

\* The stacks of the parser of the context, under their display names
ChainStacks ==
    IF ctx.parsers = <<>> THEN {}
    ELSE {DisplayPath(stack) :
             stack \in AcceptedStacks(ctx.parsers[1], ctx.parsers[1].init_state, MaxParserDepth)}

NoDuplicates(paths) == \A i, j \in 1..Len(paths) : paths[i] = paths[j] => i = j

StacksReturned == {walk.result[i] : i \in 1..Len(walk.result)}

\* C24: get_parser_paths returns, without duplicates, exactly the header
\* stacks of the chains of at most 32 transitions from the initial state to
\* an accepting state: none of them is omitted and nothing else is returned.
C24_ExactlyTheAcceptedStacks ==
    ParserDone => NoDuplicates(walk.result) /\ StacksReturned = ChainStacks

\* C24 as the code has it: the stack of a chain that extracts no header is
\* not returned.
C24_ExactlyTheNonEmptyAcceptedStacks ==
    ParserDone => NoDuplicates(walk.result) /\ StacksReturned = ChainStacks \ {<<>>}

\* C24 witness: two chains with different stacks, one of them of two
\* transitions
C24_Witness ==
    /\ ParserDone
    /\ Len(walk.result) = 2
    /\ \E i \in 1..2 : Len(walk.result[i]) = 4

\* A chain whose states extract nothing is accepted and its stack is not
\* returned
C24_EmptyStackWitness ==
    /\ ParserDone
    /\ <<>> \in ChainStacks
    /\ walk.result = <<>>

\* A parser with a cycle: no chain within the depth bound ends in an accepting
\* state, and nothing is returned
C24_CycleWitness ==
    /\ ParserDone
    /\ ctx.parsers # <<>>
    /\ ChainStacks = {}
    /\ walk.result = <<>>
    /\ \A i \in 1..Len(ctx.parsers[1].parse_states) :
          \A next \in FollowedStates(ctx.parsers[1].parse_states[i]) :
              StateByName(ctx.parsers[1], next) # <<>>

----------------------------------------------------------------------------
(* _validate_oracle_prediction_candidate: workflow/packet_sequence_workflow.py.
   A prediction is held by its task_id, its scenario and the packet_id of its
   packet_predictions; the result is nothing (None) or the message, held by
   the mismatch it names and the ids it lists *)

OraclePrediction(task_id, scenario, pred_ids) ==
    [task_id |-> task_id, scenario |-> scenario, packet_predictions |-> pred_ids]

ExpectedIds(packets) == [i \in 1..Len(packets) |-> packets[i].packet_id]

Elements(seq) == {seq[i] : i \in 1..Len(seq)}

NotAmong(ids, others) == SelectSeq(ids, LAMBDA id : id \notin Elements(others))

OracleMessage(kind, expected, got, ids) == <<[kind |-> kind, expected |-> expected, got |-> got, ids |-> ids]>>

\* The checks after the duplicate check: nothing unknown is allowed
CoverageMessageAllowingUnknown(expected_ids, pred_ids) ==
    IF NotAmong(expected_ids, pred_ids) # <<>>
    THEN OracleMessage("missing packet_id", "", "", NotAmong(expected_ids, pred_ids))
    ELSE <<>>

\* missing and extra, and the message of the first of them that is not empty
CoverageMessage(expected_ids, pred_ids) ==
    IF NotAmong(expected_ids, pred_ids) # <<>>
    THEN OracleMessage("missing packet_id", "", "", NotAmong(expected_ids, pred_ids))
    ELSE IF NotAmong(pred_ids, expected_ids) # <<>>
    THEN OracleMessage("unknown packet_id", "", "", NotAmong(pred_ids, expected_ids))
    ELSE <<>>

ValidateOraclePredictionCandidate(task_id, scenario, packets, prediction) ==
    IF prediction.task_id # task_id
    THEN OracleMessage("task_id mismatch", task_id, prediction.task_id, <<>>)
    ELSE IF prediction.scenario # scenario
    THEN OracleMessage("scenario mismatch", scenario, prediction.scenario, <<>>)
    ELSE IF Cardinality(Elements(prediction.packet_predictions)) # Len(prediction.packet_predictions)
    THEN OracleMessage("duplicate packet_id", "", "", <<>>)
    ELSE CoverageMessage(ExpectedIds(packets), prediction.packet_predictions)

ValidatedPrediction(result, task_id, scenario, prediction) ==
    [op |-> "done", fn |-> "_validate_oracle_prediction_candidate", result |-> result,
     task_id |-> task_id, scenario |-> scenario, prediction |-> prediction]

MaxOraclePackets == 2
MaxPredictions == 2
MaxPacketId == 3

OracleTaskIds == {"T1", "T2"}
OracleScenarios == {"pos", "neg"}

OraclePredictions ==
    {OraclePrediction(task_id, scenario, pred_ids) :
        task_id \in OracleTaskIds, scenario \in OracleScenarios,
        pred_ids \in SeqsUpTo(1..MaxPacketId, MaxPredictions)}

\* The packets of the scenario: numbered by the generator as it likes
InitOracle ==
    /\ ctx = Context
    /\ task = Task(RoleBindings, <<>>, FALSE)
    /\ packet_sequence \in {[i \in 1..Len(ids) |-> Packet(ids[i], "h1", <<"pos">>, TcpStack, EmptyDict)] :
                               ids \in SeqsUpTo(1..MaxPacketId, MaxOraclePackets)}
    /\ entities = <<>>
    /\ control_plane_sequence = <<>>
    /\ execution_sequence = <<>>
    /\ outcome = NotCalled
    /\ walk = Idle
    /\ history = NoHistory

\* The prediction the model returned is validated against the task and the
\* scenario at hand
CallValidateOraclePredictionCandidate ==
    /\ walk = Idle
    /\ \E task_id \in OracleTaskIds, scenario \in OracleScenarios, prediction \in OraclePredictions :
          walk' = ValidatedPrediction(
                      ValidateOraclePredictionCandidate(task_id, scenario, packet_sequence, prediction),
                      task_id, scenario, prediction)
    /\ UNCHANGED <<inputs, outcome, history>>

NextOracle == CallValidateOraclePredictionCandidate

SpecOracle == InitOracle /\ [][NextOracle]_vars

OracleDone == walk.op = "done" /\ walk.fn = "_validate_oracle_prediction_candidate"

PredictedIds == walk.prediction.packet_predictions

\* Each packet_id is predicted at most once
NoDuplicatePrediction == \A i, j \in 1..Len(PredictedIds) : PredictedIds[i] = PredictedIds[j] => i = j

MissingPackets == {packet_sequence[i].packet_id : i \in 1..Len(packet_sequence)} \ Elements(PredictedIds)

UnknownPredictions == Elements(PredictedIds) \ {packet_sequence[i].packet_id : i \in 1..Len(packet_sequence)}

CoversOneToOne == NoDuplicatePrediction /\ MissingPackets = {} /\ UnknownPredictions = {}

\* What the message says is the case
MessageIsTrue(message) ==
    /\ message.kind = "task_id mismatch" =>
          walk.prediction.task_id # walk.task_id /\ message.expected = walk.task_id
          /\ message.got = walk.prediction.task_id
    /\ message.kind = "scenario mismatch" =>
          walk.prediction.scenario # walk.scenario /\ message.expected = walk.scenario
          /\ message.got = walk.prediction.scenario
    /\ message.kind = "duplicate packet_id" => ~NoDuplicatePrediction
    /\ message.kind = "missing packet_id" => Elements(message.ids) = MissingPackets /\ MissingPackets # {}
    /\ message.kind = "unknown packet_id" => Elements(message.ids) = UnknownPredictions /\ UnknownPredictions # {}

\* C25: _validate_oracle_prediction_candidate returns no error exactly when
\* the prediction has the expected task_id and scenario and its
\* packet_predictions cover the packets one to one (no packet_id twice, none
\* of the sequence missing, none outside the sequence); otherwise the message
\* names a mismatch there is, the missing ids for one.
C25_NoErrorIffCovered ==
    OracleDone =>
        /\ walk.result = <<>> <=>
              /\ walk.prediction.task_id = walk.task_id
              /\ walk.prediction.scenario = walk.scenario
              /\ CoversOneToOne
        /\ walk.result # <<>> => MessageIsTrue(walk.result[1])

\* C25 witness: two packets, each predicted once, in the other order
C25_Witness ==
    /\ OracleDone
    /\ walk.result = <<>>
    /\ Len(packet_sequence) = 2
    /\ PredictedIds = <<packet_sequence[2].packet_id, packet_sequence[1].packet_id>>
    /\ packet_sequence[1].packet_id # packet_sequence[2].packet_id

\* Only a prediction outside the sequence is wrong
C25_UnknownWitness ==
    /\ OracleDone
    /\ walk.result # <<>>
    /\ walk.result[1].kind = "unknown packet_id"
    /\ Len(packet_sequence) > 0

\* A packet is missing and the message lists it
C25_MissingWitness ==
    /\ OracleDone
    /\ walk.result # <<>>
    /\ walk.result[1].kind = "missing packet_id"
    /\ Len(walk.result[1].ids) = 2

\* Two packets of one packet_id are covered by one prediction
C25_SharedIdWitness ==
    /\ OracleDone
    /\ walk.result = <<>>
    /\ Len(packet_sequence) = 2
    /\ Len(PredictedIds) = 1

----------------------------------------------------------------------------
(* _normalize_control_plane_sequence and _normalize_execution_sequence:
   workflow/packet_sequence_workflow.py.  The candidate of the entity
   generator is held in entities, control_plane_sequence and
   execution_sequence; the workflow replaces the two sequences by the
   normalized ones before the validators see them. *)

RuleSetCandidate(rules, operations, timeline) ==
    [entities |-> rules, control_plane_sequence |-> operations, execution_sequence |-> timeline]

\* The operations of the candidate renumbered, or an apply_table_entry for
\* each entity
NormalizeControlPlaneSequence(candidate) ==
    IF candidate.control_plane_sequence # <<>>
    THEN [idx \in 1..Len(candidate.control_plane_sequence) |->
             [candidate.control_plane_sequence[idx] EXCEPT !.order = idx]]
    ELSE [idx \in 1..Len(candidate.entities) |->
             ControlPlaneOperation(idx, "apply_table_entry", <<idx>>)]

StepOfOperation(order, op) ==
    ExecutionOperation(order, op.operation_type, op.entity_index, <<op.order>>, <<>>)

StepOfPacket(order, packet) == ExecutionOperation(order, "send_packet", <<>>, <<>>, <<packet.packet_id>>)

\* The control-plane operations go into the timeline without their order
NormalizeExecutionSequenceWithoutControlOrder(candidate, packets, operations) ==
    IF candidate.execution_sequence # <<>>
    THEN [idx \in 1..Len(candidate.execution_sequence) |->
             [candidate.execution_sequence[idx] EXCEPT !.order = idx]]
    ELSE [order \in 1..(Len(operations) + Len(packets)) |->
             IF order <= Len(operations)
             THEN [StepOfOperation(order, operations[order]) EXCEPT !.control_plane_order = <<>>]
             ELSE StepOfPacket(order, packets[order - Len(operations)])]

\* The timeline of the candidate renumbered, or the operations followed by a
\* send_packet for each packet
NormalizeExecutionSequence(candidate, packets, operations) ==
    IF candidate.execution_sequence # <<>>
    THEN [idx \in 1..Len(candidate.execution_sequence) |->
             [candidate.execution_sequence[idx] EXCEPT !.order = idx]]
    ELSE [order \in 1..(Len(operations) + Len(packets)) |->
             IF order <= Len(operations) THEN StepOfOperation(order, operations[order])
             ELSE StepOfPacket(order, packets[order - Len(operations)])]

Normalized(candidate) ==
    [op |-> "done", fn |-> "_normalize_execution_sequence", candidate |-> candidate]

\* The candidate has been parsed: both sequences are normalized
NormalizeCandidate ==
    /\ walk = Idle
    /\ control_plane_sequence' =
          NormalizeControlPlaneSequence(
              RuleSetCandidate(entities, control_plane_sequence, execution_sequence))
    /\ execution_sequence' =
          NormalizeExecutionSequence(
              RuleSetCandidate(entities, control_plane_sequence, execution_sequence),
              packet_sequence, control_plane_sequence')
    /\ walk' = Normalized(RuleSetCandidate(entities, control_plane_sequence, execution_sequence))
    /\ UNCHANGED <<ctx, task, packet_sequence, entities, outcome, history>>

\* The deterministic check of the timeline
CheckNormalizedTimeline ==
    /\ walk.op = "done"
    /\ history.validate_execution_sequence = NotCalled
    /\ CallValidateExecutionSequence

MaxNormalizeOps == 2
MaxNormalizePackets == 2

\* Operations as a generator numbers them: from 1, from anywhere, or all alike
NormalizeOperations ==
    {ControlPlaneOperation(order, IF entity_index = <<>> THEN "read_register" ELSE "apply_table_entry",
                           entity_index) :
        order \in {1, 2, 7}, entity_index \in {<<>>, <<1>>, <<2>>}}

\* Timelines a candidate supplies: in the order of the packets, or not
SuppliedTimelines ==
    {<<ExecutionOperation(1, "send_packet", <<>>, <<>>, <<1>>)>>,
     <<ExecutionOperation(5, "send_packet", <<>>, <<>>, <<2>>),
       ExecutionOperation(5, "send_packet", <<>>, <<>>, <<1>>)>>}

InitNormalize ==
    /\ ctx = Context
    /\ task = Task(RoleBindings, <<>>, FALSE)
    /\ packet_sequence \in {[i \in 1..Len(ids) |-> Packet(ids[i], "h1", <<"pos">>, TcpStack, EmptyDict)] :
                               ids \in SeqsUpTo({1, 2}, MaxNormalizePackets)}
    /\ entities \in SequenceEntityLists
    /\ control_plane_sequence \in SeqsUpTo(NormalizeOperations, MaxNormalizeOps)
    /\ execution_sequence \in {<<>>} \cup SuppliedTimelines
    /\ outcome = NotCalled
    /\ walk = Idle
    /\ history = NoHistory

NextNormalize == NormalizeCandidate \/ CheckNormalizedTimeline

SpecNormalize == InitNormalize /\ [][NextNormalize]_vars

NormalizeDone == walk.op = "done" /\ walk.fn = "_normalize_execution_sequence"

TimelineChecked == NormalizeDone /\ history.validate_execution_sequence # NotCalled

\* The operations the timeline is built from, as declared
DeclaredOperations ==
    IF walk.candidate.control_plane_sequence # <<>> THEN walk.candidate.control_plane_sequence
    ELSE [idx \in 1..Len(entities) |-> ControlPlaneOperation(idx, "apply_table_entry", <<idx>>)]

\* Every operation in declaration order, numbered by its place
OperationsRenumbered ==
    /\ Len(control_plane_sequence) = Len(DeclaredOperations)
    /\ \A i \in 1..Len(control_plane_sequence) :
          /\ control_plane_sequence[i].order = i
          /\ control_plane_sequence[i].operation_type = DeclaredOperations[i].operation_type
          /\ control_plane_sequence[i].entity_index = DeclaredOperations[i].entity_index

\* Every operation in order with control_plane_order set, then a send_packet
\* for each packet in order, numbered 1..n without gaps
TimelineAsDerived ==
    /\ Len(execution_sequence) = Len(control_plane_sequence) + Len(packet_sequence)
    /\ \A i \in 1..Len(execution_sequence) : execution_sequence[i].order = i
    /\ \A i \in 1..Len(control_plane_sequence) :
          /\ execution_sequence[i].operation_type = control_plane_sequence[i].operation_type
          /\ execution_sequence[i].control_plane_order = <<control_plane_sequence[i].order>>
          /\ execution_sequence[i].entity_index = control_plane_sequence[i].entity_index
    /\ \A i \in 1..Len(packet_sequence) :
          /\ execution_sequence[Len(control_plane_sequence) + i].operation_type = "send_packet"
          /\ execution_sequence[Len(control_plane_sequence) + i].packet_id
                = <<packet_sequence[i].packet_id>>

\* C26: the normalized control-plane sequence has the orders 1..n in
\* declaration order; without a supplied execution_sequence the timeline is
\* the operations in order followed by a send_packet for each packet in order,
\* numbered 1..n, and validate_execution_sequence passes it.
C26_DerivedTimelinePasses ==
    NormalizeDone =>
        /\ OperationsRenumbered
        /\ walk.candidate.execution_sequence = <<>> =>
              /\ TimelineAsDerived
              /\ TimelineChecked => outcome.status = "PASS"

\* C26 witness: operations numbered 7 and 2 and packets numbered 2 and 1, no
\* timeline supplied, and the derived timeline has passed
C26_Witness ==
    /\ TimelineChecked
    /\ walk.candidate.execution_sequence = <<>>
    /\ Len(walk.candidate.control_plane_sequence) = 2
    /\ walk.candidate.control_plane_sequence[1].order = 7
    /\ walk.candidate.control_plane_sequence[2].order = 2
    /\ PacketIds = <<2, 1>>
    /\ outcome.status = "PASS"

\* Without operations in the candidate an operation is derived for each entity
C26_DerivedOperationsWitness ==
    /\ TimelineChecked
    /\ walk.candidate.execution_sequence = <<>>
    /\ walk.candidate.control_plane_sequence = <<>>
    /\ Len(control_plane_sequence) = 2
    /\ Len(packet_sequence) = 2
    /\ outcome.status = "PASS"

\* A supplied timeline is renumbered only and may fail
C26_SuppliedTimelineFailsWitness ==
    /\ TimelineChecked
    /\ walk.candidate.execution_sequence # <<>>
    /\ outcome.status = "FAIL"

----------------------------------------------------------------------------
(* The closing presence check of validate_packet_sequence_contract and the
   checks before it *)

ScenarioNamesDistinct ==
    \A i, j \in 1..Len(task.sequence_contract) :
        task.sequence_contract[i].scenario = task.sequence_contract[j].scenario => i = j

SharedNameDifferentKinds ==
    \E i, j \in 1..Len(task.sequence_contract) :
        /\ task.sequence_contract[i].scenario = task.sequence_contract[j].scenario
        /\ task.sequence_contract[i].kind # task.sequence_contract[j].kind

PresenceCheckFailed ==
    /\ outcome.status = "FAIL"
    /\ outcome.feedback.kind = "missing_positive_or_negative_packets"

\* C29: under require_positive_and_negative, with pairwise distinct scenario
\* names, a call whose declaration check and per-scenario checks passed does
\* not fail the closing presence check; that check fails only if two contracts
\* share a scenario name with different kinds.
C29_PresenceFollowsFromScenarioChecks ==
    outcome # NotCalled /\ task.require_positive_and_negative =>
        /\ ScenarioNamesDistinct /\ ~DeclarationFails /\ FailingScenarios = {} /\ CheckOfFeedback > 4
              => outcome.status = "PASS"
        /\ PresenceCheckFailed => SharedNameDifferentKinds

\* C29 witness: a required positive and a required negative scenario of
\* different names, each with its packets, and the call passes
C29_Witness ==
    /\ outcome.status = "PASS"
    /\ task.require_positive_and_negative
    /\ ScenarioNamesDistinct
    /\ Len(task.sequence_contract) = 2
    /\ NumberTagged("pos") > 0
    /\ NumberTagged("neg") > 0

\* The presence check fails behind scenario checks that passed: 'pos' is
\* declared positive and then negative
C29_SharedNameWitness ==
    /\ PresenceCheckFailed
    /\ FailingScenarios = {}
    /\ ~DeclarationFails
    /\ SharedNameDifferentKinds

----------------------------------------------------------------------------
(* run_packet_sequence_generation: workflow/packet_sequence_workflow.py, from
   the packet-sequence loop to the index.  walk holds the run: where it
   stands (pc), cfg.max_retries and the local variables of the three loops;
   packet_sequence holds the packets of the kept attempt, and entities,
   control_plane_sequence and execution_sequence hold the kept entity
   candidate of the scenario at hand.  The model agents are a choice among
   the ways their call can end.  model_critic, entity_model_critic, last_judged
   and last_judged_entities are not variables of the code: they keep what the
   model critic said of the kept attempt and which candidate was judged
   last. *)

RunState(max_retries) ==
    [op |-> "run", pc |-> "packet_sequence", max_retries |-> max_retries, broke |-> FALSE,
     attempt_count |-> 0, last_feedback |-> <<>>, last_attempt |-> <<>>,
     scenario_order |-> <<>>, at |-> 0,
     entity_attempt_count |-> 0, last_entity_feedback |-> <<>>, last_entities |-> <<>>,
     last_entity_critic |-> <<>>,
     oracle_attempt_count |-> 0, last_oracle_feedback |-> <<>>, oracle_prediction |-> <<>>,
     scenario_entity_status |-> <<>>, scenario_oracle_prediction_status |-> <<>>,
     final_status |-> "", error |-> "",
     model_critic |-> <<>>, last_judged |-> <<>>,
     entity_model_critic |-> <<>>, last_judged_entities |-> <<>>]

AttemptResult(packets, critic) == [packet_sequence |-> packets, critic |-> critic]

\* The verdict of the model critic is kept whatever the validator says
KeptCriticOfModel(llm_critic, det) == llm_critic

\* if det.status == "FAIL": attempt_result.critic = det
KeptCritic(llm_critic, det) == IF det.status = "FAIL" THEN det ELSE llm_critic

\* The entity verdict: the entity validator first, then the execution
\* validator, then the model critic
FinalEntityCritic(llm_entity_critic, det_entity_critic, det_execution_critic) ==
    IF det_entity_critic.status = "FAIL" THEN det_entity_critic
    ELSE IF det_execution_critic.status = "FAIL" THEN det_execution_critic
    ELSE llm_entity_critic

\* The loop goes on after a PASS
BreaksNever(critic) == FALSE

\* if ...critic.status == "PASS": break
Breaks(critic) == critic.status = "PASS"

\* An exception leaves the run
Aborted(run, error) == [run EXCEPT !.pc = "aborted", !.error = error]

\* The rest of a packet-sequence attempt whose candidate and model critic
\* were parsed
JudgedPacketAttempt(run, candidate, llm_critic, det) ==
    IF det.kind = "raise" THEN Aborted(run, det.feedback.kind)
    ELSE [run EXCEPT !.attempt_count = @ + 1,
                     !.last_attempt = <<AttemptResult(candidate, KeptCritic(llm_critic, det))>>,
                     !.last_feedback = <<KeptCritic(llm_critic, det).feedback>>,
                     !.broke = Breaks(KeptCritic(llm_critic, det)),
                     !.model_critic = <<llm_critic.status>>,
                     !.last_judged = <<candidate>>]

\* scenario_order: the scenarios of the contracts, then those of the packets
\* no contract names, each once
RECURSIVE FirstOccurrences(_)
FirstOccurrences(names) ==
    IF names = <<>> THEN <<>>
    ELSE IF \E i \in 1..(Len(names) - 1) : names[i] = Top(names) THEN FirstOccurrences(Pop(names))
    ELSE Append(FirstOccurrences(Pop(names)), Top(names))

ScenarioOrder(t, packets) ==
    FirstOccurrences([i \in 1..Len(t.sequence_contract) |-> t.sequence_contract[i].scenario]
                     \o [i \in 1..Len(packets) |-> ScenarioTag(packets[i])])

\* scenario_meta[scenario]["required"]: of the first contract of the name
ScenarioRequired(t, scenario) ==
    /\ \E i \in 1..Len(t.sequence_contract) : t.sequence_contract[i].scenario = scenario
    /\ t.sequence_contract[CHOOSE i \in 1..Len(t.sequence_contract) :
                              /\ t.sequence_contract[i].scenario = scenario
                              /\ \A j \in 1..(i - 1) : t.sequence_contract[j].scenario # scenario].required

\* The rest of an entity attempt whose candidate and model critic were parsed
JudgedEntityAttempt(run, normalized, llm_entity_critic, det_entity_critic, det_execution_critic) ==
    IF det_entity_critic.kind = "raise" THEN Aborted(run, det_entity_critic.feedback.kind)
    ELSE IF det_execution_critic.kind = "raise" THEN Aborted(run, det_execution_critic.feedback.kind)
    ELSE [run EXCEPT
            !.entity_attempt_count = @ + 1,
            !.last_entities = <<normalized>>,
            !.last_entity_critic =
                <<FinalEntityCritic(llm_entity_critic, det_entity_critic, det_execution_critic)>>,
            !.last_entity_feedback =
                <<FinalEntityCritic(llm_entity_critic, det_entity_critic, det_execution_critic).feedback>>,
            !.broke = Breaks(FinalEntityCritic(llm_entity_critic, det_entity_critic,
                                               det_execution_critic)),
            !.entity_model_critic = <<llm_entity_critic.status>>,
            !.last_judged_entities = <<normalized>>]

\* The rest of an oracle attempt whose candidate was parsed
ValidatedOracleAttempt(run, candidate, validation_feedback) ==
    IF validation_feedback # <<>>
    THEN [run EXCEPT !.oracle_attempt_count = @ + 1, !.last_oracle_feedback = validation_feedback]
    ELSE [run EXCEPT !.oracle_attempt_count = @ + 1, !.oracle_prediction = <<candidate>>,
                     !.broke = TRUE]

ScenarioStatus(scenario, status) == [scenario |-> scenario, status |-> status]

AllEntitiesPass(statuses) ==
    statuses # <<>> /\ \A i \in 1..Len(statuses) : statuses[i].status = "PASS"

FinalStatus(run) ==
    IF run.last_attempt[1].critic.status = "PASS" /\ AllEntitiesPass(run.scenario_entity_status)
    THEN "PASS" ELSE "FAIL"

MaxRetries == 2

WorkflowTaskId == "T1"

\* 'pos' has to be there and 'neg' need not
WorkflowTask ==
    Task(RoleBindings,
         <<Contract("pos", "positive", TRUE, FALSE, <<PlainStep>>, <<>>),
           Contract("neg", "negative", FALSE, FALSE, <<PlainStep>>, <<>>)>>,
         FALSE)

WorkflowPacket(scenario) == Packet(0, "h1", <<scenario>>, TcpStack, DstFields(PyStr(Ip_10_0_3_3)))

\* What the sequence constructor may return: the positive scenario, both
\* scenarios, or the negative one only
PacketCandidates ==
    {Numbered(<<WorkflowPacket("pos")>>), Numbered(<<WorkflowPacket("pos"), WorkflowPacket("neg")>>),
     Numbered(<<WorkflowPacket("neg")>>)}

ModelCritics == {Returned(status, [kind |-> "model_critic"]) : status \in {"PASS", "FAIL"}}

\* What the entity generator may return: a rule for the destination, a rule
\* for a table the program does not have, and a rule with a timeline that
\* sends nothing
EntityCandidates ==
    {RuleSetCandidate(<<ForwardTo(Ip_10_0_3_3, Mac_value, 3)>>, <<>>, <<>>),
     RuleSetCandidate(<<TableRule(Str_unknown_table, Str_lpm, EmptyDict, Str_drop, EmptyDict, <<>>)>>,
                      <<>>, <<>>),
     RuleSetCandidate(<<ForwardTo(Ip_10_0_3_3, Mac_value, 3)>>, <<>>,
                      <<ExecutionOperation(1, "apply_table_entry", <<1>>, <<1>>, <<>>)>>)}

\* What the oracle predictor may return for the packets: a prediction for
\* each, none, or one for another task
OracleCandidates(scenario, packets) ==
    {OraclePrediction(WorkflowTaskId, scenario, ExpectedIds(packets)),
     OraclePrediction(WorkflowTaskId, scenario, <<>>),
     OraclePrediction("T2", scenario, ExpectedIds(packets))}

GeneratorErrors(generator, critic) ==
    {[kind |-> "api_error", agent |-> generator], [kind |-> "schema_parse_failed", agent |-> generator],
     [kind |-> "api_error", agent |-> critic], [kind |-> "schema_parse_failed", agent |-> critic]}

InitWorkflow ==
    /\ ctx = Context
    /\ task = WorkflowTask
    /\ packet_sequence = <<>>
    /\ entities = <<>>
    /\ control_plane_sequence = <<>>
    /\ execution_sequence = <<>>
    /\ outcome = NotCalled
    /\ walk \in {RunState(max_retries) : max_retries \in 0..MaxRetries}
    /\ history = NoHistory

Running(pc) == walk.op = "run" /\ walk.pc = pc

LoopRuns(pc, count) == Running(pc) /\ ~walk.broke /\ count < walk.max_retries

LoopOver(pc, count) == Running(pc) /\ (walk.broke \/ count >= walk.max_retries)

\* A packet-sequence attempt that ends in an error of a model call or in
\* output that cannot be parsed: continue
PacketAttemptFails ==
    /\ LoopRuns("packet_sequence", walk.attempt_count)
    /\ \E error \in GeneratorErrors("Agent2", "Agent3") :
          walk' = [walk EXCEPT !.attempt_count = @ + 1, !.last_feedback = <<error>>]
    /\ UNCHANGED <<inputs, outcome, history>>

\* A packet-sequence attempt with a candidate and a model critic
PacketAttemptJudged ==
    /\ LoopRuns("packet_sequence", walk.attempt_count)
    /\ \E candidate \in PacketCandidates, llm_critic \in ModelCritics :
          /\ walk' = JudgedPacketAttempt(walk, candidate, llm_critic,
                                         ValidatePacketSequenceContract(ctx, task, candidate))
          /\ packet_sequence' = IF walk'.pc = "aborted" THEN packet_sequence ELSE candidate
    /\ UNCHANGED <<ctx, task, entities, control_plane_sequence, execution_sequence, outcome, history>>

\* Behind the packet-sequence loop: without a kept attempt the run is over,
\* else the scenarios are listed
PacketStageEnds ==
    /\ LoopOver("packet_sequence", walk.attempt_count)
    /\ walk' = IF walk.last_attempt = <<>> THEN Aborted(walk, "no_packet_sequence_attempt")
               ELSE [walk EXCEPT !.pc = "scenario", !.broke = FALSE, !.at = 1,
                                 !.scenario_order = ScenarioOrder(task, packet_sequence)]
    /\ UNCHANGED <<inputs, outcome, history>>

PacketsForScenario == ScenarioPackets(packet_sequence, walk.scenario_order[walk.at])

\* The head of the loop over scenario_order: a scenario without packets is
\* passed over, or ends the run if it is required; else its entity loop starts
NextScenario ==
    /\ Running("scenario")
    /\ walk.at <= Len(walk.scenario_order)
    /\ walk' = IF PacketsForScenario = <<>>
               THEN IF ScenarioRequired(task, walk.scenario_order[walk.at])
                    THEN Aborted(walk, "required_scenario_has_no_packets")
                    ELSE [walk EXCEPT !.at = @ + 1]
               ELSE [walk EXCEPT !.pc = "entities", !.broke = FALSE, !.entity_attempt_count = 0,
                                 !.last_entity_feedback = <<>>, !.last_entities = <<>>,
                                 !.last_entity_critic = <<>>, !.entity_model_critic = <<>>,
                                 !.last_judged_entities = <<>>]
    /\ UNCHANGED <<inputs, outcome, history>>

EntityAttemptFails ==
    /\ LoopRuns("entities", walk.entity_attempt_count)
    /\ \E error \in GeneratorErrors("Agent4", "Agent5") :
          walk' = [walk EXCEPT !.entity_attempt_count = @ + 1, !.last_entity_feedback = <<error>>]
    /\ UNCHANGED <<inputs, outcome, history>>

NormalizedCandidate(candidate, packets) ==
    RuleSetCandidate(candidate.entities, NormalizeControlPlaneSequence(candidate),
                     NormalizeExecutionSequence(candidate, packets,
                                                NormalizeControlPlaneSequence(candidate)))

EntityVerdict(normalized, packets) ==
    ValidateControlPlaneEntitiesWithSequence(ctx, task, packets, normalized.entities,
                                             normalized.control_plane_sequence)

ExecutionVerdict(normalized, packets) ==
    ValidateExecutionSequence(packets, normalized.entities, normalized.control_plane_sequence,
                              normalized.execution_sequence)

\* An entity attempt with a candidate and a model critic
EntityAttemptJudged ==
    /\ LoopRuns("entities", walk.entity_attempt_count)
    /\ \E candidate \in EntityCandidates, llm_entity_critic \in ModelCritics :
          /\ walk' = JudgedEntityAttempt(
                         walk, NormalizedCandidate(candidate, PacketsForScenario), llm_entity_critic,
                         EntityVerdict(NormalizedCandidate(candidate, PacketsForScenario),
                                       PacketsForScenario),
                         ExecutionVerdict(NormalizedCandidate(candidate, PacketsForScenario),
                                          PacketsForScenario))
          /\ IF walk'.pc = "aborted"
             THEN UNCHANGED <<entities, control_plane_sequence, execution_sequence>>
             ELSE /\ entities' = walk'.last_entities[1].entities
                  /\ control_plane_sequence' = walk'.last_entities[1].control_plane_sequence
                  /\ execution_sequence' = walk'.last_entities[1].execution_sequence
    /\ UNCHANGED <<ctx, task, packet_sequence, outcome, history>>

\* Behind the entity loop: without a kept candidate the run is over, else the
\* verdict of the scenario is noted and the oracle loop starts
EntityStageEnds ==
    /\ LoopOver("entities", walk.entity_attempt_count)
    /\ walk' = IF walk.last_entities = <<>> THEN Aborted(walk, "no_entity_attempt")
               ELSE [walk EXCEPT
                       !.pc = "oracle", !.broke = FALSE,
                       !.scenario_entity_status =
                           Append(@, ScenarioStatus(walk.scenario_order[walk.at],
                                                    walk.last_entity_critic[1].status)),
                       !.oracle_attempt_count = 0, !.last_oracle_feedback = <<>>,
                       !.oracle_prediction = <<>>]
    /\ UNCHANGED <<inputs, outcome, history>>

OracleAttemptFails ==
    /\ LoopRuns("oracle", walk.oracle_attempt_count)
    /\ \E error \in {[kind |-> "api_error", agent |-> "Agent6"],
                     [kind |-> "schema_parse_failed", agent |-> "Agent6"]} :
          walk' = [walk EXCEPT !.oracle_attempt_count = @ + 1, !.last_oracle_feedback = <<error>>]
    /\ UNCHANGED <<inputs, outcome, history>>

\* An oracle attempt with a candidate
OracleAttemptValidated ==
    /\ LoopRuns("oracle", walk.oracle_attempt_count)
    /\ \E candidate \in OracleCandidates(walk.scenario_order[walk.at], PacketsForScenario) :
          walk' = ValidatedOracleAttempt(
                      walk, candidate,
                      ValidateOraclePredictionCandidate(WorkflowTaskId, walk.scenario_order[walk.at],
                                                        PacketsForScenario, candidate))
    /\ UNCHANGED <<inputs, outcome, history>>

\* Behind the oracle loop: the prediction or the fallback goes into the
\* output of the scenario, and the next scenario is taken
OracleStageEnds ==
    /\ LoopOver("oracle", walk.oracle_attempt_count)
    /\ walk' = [walk EXCEPT
                  !.pc = "scenario", !.broke = FALSE, !.at = @ + 1,
                  !.scenario_oracle_prediction_status =
                      Append(@, ScenarioStatus(walk.scenario_order[walk.at],
                                               IF walk.oracle_prediction = <<>> THEN "FALLBACK"
                                               ELSE "PASS"))]
    /\ UNCHANGED <<inputs, outcome, history>>

\* Behind the loop over the scenarios: the index with its final_status
WriteIndex ==
    /\ Running("scenario")
    /\ walk.at > Len(walk.scenario_order)
    /\ walk' = [walk EXCEPT !.pc = "done", !.final_status = FinalStatus(walk)]
    /\ UNCHANGED <<inputs, outcome, history>>

NextWorkflow ==
    \/ PacketAttemptFails \/ PacketAttemptJudged \/ PacketStageEnds
    \/ NextScenario
    \/ EntityAttemptFails \/ EntityAttemptJudged \/ EntityStageEnds
    \/ OracleAttemptFails \/ OracleAttemptValidated \/ OracleStageEnds
    \/ WriteIndex

SpecWorkflow == InitWorkflow /\ [][NextWorkflow]_vars

\* The run goes on as long as it can
SpecWorkflowFair == SpecWorkflow /\ WF_vars(NextWorkflow)


KeptPacketVerdictIs(status) ==
    walk.last_attempt # <<>> /\ walk.last_attempt[1].critic.status = status

KeptEntityVerdictIs(status) ==
    /\ walk.pc \in {"entities", "oracle"}
    /\ walk.last_entity_critic # <<>>
    /\ walk.last_entity_critic[1].status = status

KeptEntities == RuleSetCandidate(entities, control_plane_sequence, execution_sequence)

\* The scenarios whose entity loop has ended
ProcessedScenarios ==
    {walk.scenario_entity_status[i].scenario : i \in 1..Len(walk.scenario_entity_status)}

ScenariosWithPackets ==
    {walk.scenario_order[i] :
        i \in {j \in 1..Len(walk.scenario_order) :
                  ScenarioPackets(packet_sequence, walk.scenario_order[j]) # <<>>}}

\* C27: the verdict kept for a packet-sequence attempt is PASS only if the
\* model critic and validate_packet_sequence_contract said PASS; the verdict
\* kept for an entity attempt is PASS only if the model critic,
\* validate_control_plane_entities and validate_execution_sequence said PASS;
\* final_status is PASS only if the kept packet-sequence verdict is PASS and
\* at least one scenario was processed and every processed scenario has the
\* entity verdict PASS.
C27_DeterministicFailOverrides ==
    walk.op = "run" =>
        /\ KeptPacketVerdictIs("PASS") =>
              /\ walk.model_critic = <<"PASS">>
              /\ ValidatePacketSequenceContract(ctx, task, packet_sequence).status = "PASS"
        /\ KeptEntityVerdictIs("PASS") =>
              /\ walk.entity_model_critic = <<"PASS">>
              /\ EntityVerdict(KeptEntities, PacketsForScenario).status = "PASS"
              /\ ExecutionVerdict(KeptEntities, PacketsForScenario).status = "PASS"
        /\ walk.final_status = "PASS" =>
              /\ KeptPacketVerdictIs("PASS")
              /\ ProcessedScenarios # {}
              /\ ProcessedScenarios = ScenariosWithPackets
              /\ \A i \in 1..Len(walk.scenario_entity_status) :
                    walk.scenario_entity_status[i].status = "PASS"

\* C27 witness: the model critic said PASS, the validator FAIL, and FAIL is
\* kept
C27_Witness ==
    /\ walk.op = "run"
    /\ KeptPacketVerdictIs("FAIL")
    /\ walk.model_critic = <<"PASS">>
    /\ walk.last_attempt[1].critic.feedback.kind # "model_critic"

\* The execution validator alone said FAIL of an entity attempt, and FAIL is
\* kept
C27_ExecutionOverridesWitness ==
    /\ walk.op = "run"
    /\ KeptEntityVerdictIs("FAIL")
    /\ walk.entity_model_critic = <<"PASS">>
    /\ EntityVerdict(KeptEntities, PacketsForScenario).status = "PASS"
    /\ ExecutionVerdict(KeptEntities, PacketsForScenario).status = "FAIL"

\* A run of two scenarios ends with final_status PASS
C27_FinalPassWitness ==
    /\ walk.op = "run"
    /\ walk.pc = "done"
    /\ walk.final_status = "PASS"
    /\ Len(walk.scenario_entity_status) = 2

\* The packet sequence passed and an entity verdict is FAIL: final_status FAIL
C27_FinalFailWitness ==
    /\ walk.op = "run"
    /\ walk.pc = "done"
    /\ walk.final_status = "FAIL"
    /\ KeptPacketVerdictIs("PASS")

AttemptsWithinRetries ==
    /\ walk.attempt_count <= walk.max_retries
    /\ walk.entity_attempt_count <= walk.max_retries
    /\ walk.oracle_attempt_count <= walk.max_retries

\* Past a stage there is a kept candidate, the one judged last
StagesKeepLastCandidate ==
    /\ walk.pc \in {"scenario", "entities", "oracle", "done"} =>
          /\ walk.last_attempt # <<>>
          /\ walk.last_attempt[1].packet_sequence = walk.last_judged[1]
          /\ packet_sequence = walk.last_judged[1]
    /\ walk.pc = "oracle" =>
          /\ walk.last_entities # <<>>
          /\ walk.last_entities[1] = walk.last_judged_entities[1]
          /\ KeptEntities = walk.last_judged_entities[1]

\* The run is given up for want of a candidate only after max_retries
\* attempts none of which was judged
AbortsWithoutCandidate ==
    /\ walk.error = "no_packet_sequence_attempt" =>
          walk.last_judged = <<>> /\ walk.attempt_count = walk.max_retries
    /\ walk.error = "no_entity_attempt" =>
          walk.last_judged_entities = <<>> /\ walk.entity_attempt_count = walk.max_retries

\* An attempt is made only while no PASS is kept, counts one and leaves
\* feedback
AttemptStep ==
    /\ walk'.attempt_count # walk.attempt_count =>
          /\ walk'.attempt_count = walk.attempt_count + 1
          /\ ~KeptPacketVerdictIs("PASS")
          /\ walk'.last_feedback # <<>>
    /\ walk'.entity_attempt_count > walk.entity_attempt_count =>
          /\ walk'.entity_attempt_count = walk.entity_attempt_count + 1
          /\ ~KeptEntityVerdictIs("PASS")
          /\ walk'.last_entity_feedback # <<>>
    /\ walk'.oracle_attempt_count > walk.oracle_attempt_count =>
          /\ walk'.oracle_attempt_count = walk.oracle_attempt_count + 1
          /\ walk.oracle_prediction = <<>>
          /\ walk'.oracle_prediction # <<>> \/ walk'.last_oracle_feedback # <<>>

RunEnded == walk.pc \in {"done", "aborted"}

\* C28: each stage makes at most max_retries attempts and none after an
\* attempt whose kept verdict is PASS; every attempt, one that ends in an
\* error too, counts and leaves feedback; without a judged candidate the
\* packet-sequence stage and the entity stage give the run up, and with one
\* they go on with the candidate judged last; the run ends.
C28_RetriesBounded ==
    /\ [](AttemptsWithinRetries /\ StagesKeepLastCandidate /\ AbortsWithoutCandidate)
    /\ [][AttemptStep]_vars
    /\ <>RunEnded

\* C28 witness: both attempts of the packet-sequence stage ended in FAIL and
\* the run goes on with the last candidate
C28_Witness ==
    /\ walk.op = "run"
    /\ walk.pc = "scenario"
    /\ walk.max_retries = 2
    /\ walk.attempt_count = 2
    /\ KeptPacketVerdictIs("FAIL")

\* The first of two attempts passed and no second was made
C28_PassEndsStageWitness ==
    /\ walk.op = "run"
    /\ walk.pc = "scenario"
    /\ walk.max_retries = 2
    /\ walk.attempt_count = 1
    /\ KeptPacketVerdictIs("PASS")

\* Both attempts ended in errors and the run is given up
C28_AbortWitness ==
    /\ walk.op = "run"
    /\ walk.pc = "aborted"
    /\ walk.error = "no_packet_sequence_attempt"
    /\ walk.attempt_count = 2
    /\ walk.last_feedback # <<>>

\* An error after a judged attempt: the judged candidate is kept
C28_ErrorAfterFailWitness ==
    /\ walk.op = "run"
    /\ walk.pc = "scenario"
    /\ walk.attempt_count = 2
    /\ walk.last_feedback[1].kind = "api_error"

\* Every oracle attempt failed: the fallback
C28_FallbackWitness ==
    /\ walk.op = "run"
    /\ Len(walk.scenario_oracle_prediction_status) > 0
    /\ walk.scenario_oracle_prediction_status[1].status = "FALLBACK"

====
